---- MODULE Spec2Model ----
(***************************************************************************)
(* A model of the OpenGL resource layer (glr.rs) of easy-imgui-rs: the GPU *)
(* object wrappers, the scoped state guards and the dirty-tracked dynamic   *)
(* vertex array.  The driver is the state the wrappers act on; each public *)
(* operation of the layer is one action.  Every component has a            *)
(* specification of its own (SpecViewport, SpecFramebuffer, SpecEnabler,   *)
(* SpecDva, SpecObj); the variables of the other components stay at their  *)
(* initial values there.                                                   *)
(***************************************************************************)
EXTENDS Integers, Sequences, FiniteSets, TLC

\* ---------------------------------------------------------------- bounds
\* Viewport rectangles have width and height in 1..MaxDim.
MaxDim == 2
\* Guards of one kind alive at the same time.
MaxGuards == 2
\* Framebuffer objects 1..NFramebuffers (0 is the default framebuffer).
NFramebuffers == 2
\* Vertex attribute slots 0..NSlots-1.
NSlots == 2
\* Enabler guards constructed between two moments with no guard alive.
MaxEnables == 3
\* Records of a dynamic vertex array: at most MaxLen, values 0..NVals-1.
MaxLen == 2
NVals == 2
\* Bytes of one record, size_of::<A>().
RecSize == 2
\* Wrapper instances followed at the same time, driver names 1..NHandles.
NWrappers == 2
NHandles == 2
\* Renderbuffer objects 1..NRenderbuffers (0 is none).
NRenderbuffers == 2
\* Active uniforms, and active attributes, the driver reports for a program.
MaxActive == 3
\* Entries of a uniform catalog, and fields of a uniform! structure.
MaxUniforms == 3
MaxFields == 2
\* Entries of an attribute catalog.
MaxAttribs == 3
\* Active uniforms, and attributes, of a program that is looked up in.
MaxCatalog == 2
\* do_frame calls, closures registered over them, and firings of one token
\* in its frame.
MaxFrames == 2
MaxClosures == 3
MaxFires == 2

VARIABLES
    \* PushViewport
    viewport,     \* the driver's viewport rectangle <<x, y, w, h>>
    vpGuards,     \* the live PushViewport values, in construction order
    vpEv,         \* the last PushViewport operation
    \* BinderFramebuffer
    fbBound,      \* the driver's binding of each target: "draw", "read"
    fbGuards,     \* the live BinderFramebuffer values
    fbEv,         \* the last BinderFramebuffer operation
    \* EnablerVertexAttribArray
    slotOn,       \* the driver's set of enabled vertex attribute slots
    enGuards,     \* the live EnablerVertexAttribArray values
    enCnt,        \* enable calls per slot since no guard was alive
    disCnt,       \* disable calls per slot since no guard was alive
    enLifo,       \* every destruction so far was of the newest live guard
    \* DynamicVertexArray
    data,         \* the local record sequence
    gpu,          \* the data store of the array's own buffer object
    buf_len,      \* the recorded uploaded size
    dirty,        \* the dirty flag
    arrayBuffer,  \* the driver's ARRAY_BUFFER binding
    ev,           \* the last operation on the array and what it did
    hist,         \* the set/bind_buffer calls that ended with the last one
    maxUp,        \* the largest record count uploaded so far
    \* GPU object wrappers
    wrappers,     \* the wrapper instances
    glLive,       \* the driver's live object names, <<kind, name>>
    delCnt,       \* delete calls issued for each wrapper's handle
    fsCalls,      \* the driver calls of the last Program::from_source
    fsRet,        \* what it returned: "ok", "err" ("none" before the first)
    fsIn,         \* what the driver answered its reflection loops
    fsProg,       \* the catalogs of the Program it returned
    lookup,       \* the last uniform_by_name / attrib_by_name and its result
    \* the driver's error flag
    glErr,        \* the recorded error code, 0 for NO_ERROR
    \* Program::draw
    curProgram,   \* the driver's current program
    drIn,         \* the arguments and the program of the last draw
    drCalls,      \* the driver calls of the last draw, in order
    drRet,        \* how it ended: "ok", "panic" ("none" before the first)
    \* try_renderbuffer_storage_multisample
    msIn,         \* the last call's driver: the counts it accepts, its error
    msCalls,      \* the driver calls of the last call, in order
    msRet,        \* what it returned: a sample count, or None
    \* BinderRenderbuffer
    rbBound,      \* the driver's RENDERBUFFER binding
    rbGuards,     \* the live BinderRenderbuffer values
    rbEv,         \* the last BinderRenderbuffer operation
    \* Ui (the frame's callback registry)
    callbacks,    \* Ui::callbacks: the boxed closures, by token
    uiLive,       \* io.BackendLanguageUserData points at the frame's Ui
    frameNo,      \* the do_frame calls so far
    tokens,       \* the tokens handed to the native library
    invoked,      \* how often each user closure has run
    fired,        \* how often each closure's own token fired in its frame
    cbEv,         \* the last registry operation
    \* Context (the font list and the atlas)
    pending_atlas, \* Context::pending_atlas
    fonts,        \* Context::fonts
    io,           \* the native ImGuiIO fields set_size writes
    atlas,        \* the native font atlas: one entry per font it was given
    ctxEv,        \* the last Context operation and what it returned
    sinceUpdate,  \* the operations since the last update_atlas ("new" at first)
    addCalls      \* the add_font calls so far

vpVars == <<viewport, vpGuards, vpEv>>
fbVars == <<fbBound, fbGuards, fbEv>>
enVars == <<slotOn, enGuards, enCnt, disCnt, enLifo>>
dvaVars == <<data, gpu, buf_len, dirty, arrayBuffer, ev, hist, maxUp>>
objVars == <<wrappers, glLive, delCnt, fsCalls, fsRet, fsIn, fsProg, lookup>>
drwVars == <<curProgram, drIn, drCalls, drRet>>
msVars == <<msIn, msCalls, msRet>>
rbVars == <<rbBound, rbGuards, rbEv>>
cbVars == <<callbacks, uiLive, frameNo, tokens, invoked, fired, cbEv>>
ctxVars == <<pending_atlas, fonts, io, atlas, ctxEv, sinceUpdate, addCalls>>
moreVars == <<glErr, drwVars, msVars, rbVars, cbVars, ctxVars>>
vars == <<vpVars, fbVars, enVars, dvaVars, objVars, moreVars>>

\* The sequence s without its i-th element.
RemoveAt(s, i) == [j \in 1..(Len(s) - 1) |-> IF j < i THEN s[j] ELSE s[j + 1]]

\* ------------------------------------------------------------ PushViewport
Rects == {<<0, 0, w, h>> : w \in 1..MaxDim, h \in 1..MaxDim}

\* gl.viewport(x, y, width, height): the driver stores the rectangle.
gl_viewport(r) == viewport' = r

\* gl.get_parameter_i32_slice(VIEWPORT, &mut prev): the current rectangle.
gl_get_viewport == viewport

VpNoEv == [op |-> "none", before |-> <<0, 0, 0, 0>>]

VpInit ==
    /\ viewport \in Rects
    /\ vpGuards = <<>>
    /\ vpEv = VpNoEv

VpIdle ==
    /\ viewport = <<0, 0, 1, 1>>
    /\ vpGuards = <<>>
    /\ vpEv = VpNoEv

\* PushViewport::new: capture the rectangle, change nothing.  `before` is the
\* rectangle in effect when the constructor was entered (not a field).
PushViewport_new ==
    /\ Len(vpGuards) < MaxGuards
    /\ vpGuards' = Append(vpGuards, [prev |-> gl_get_viewport, before |-> viewport])
    /\ vpEv' = [op |-> "new", before |-> viewport]
    /\ UNCHANGED <<viewport, fbVars, enVars, dvaVars, objVars, moreVars>>

\* A push that reads the rectangle after setting it.
PushViewport_push_late(r) ==
    /\ Len(vpGuards) < MaxGuards
    /\ gl_viewport(r)
    /\ vpGuards' = Append(vpGuards, [prev |-> r, before |-> viewport])
    /\ vpEv' = [op |-> "push", before |-> viewport]
    /\ UNCHANGED <<fbVars, enVars, dvaVars, objVars, moreVars>>

\* PushViewport::push: new, then viewport(x, y, width, height).
PushViewport_push(r) ==
    /\ Len(vpGuards) < MaxGuards
    /\ vpGuards' = Append(vpGuards, [prev |-> gl_get_viewport, before |-> viewport])
    /\ gl_viewport(r)
    /\ vpEv' = [op |-> "push", before |-> viewport]
    /\ UNCHANGED <<fbVars, enVars, dvaVars, objVars, moreVars>>

\* PushViewport::viewport on a live guard: a viewport change inside the scope.
PushViewport_viewport(r) ==
    /\ Len(vpGuards) > 0
    /\ gl_viewport(r)
    /\ vpEv' = [op |-> "viewport", before |-> viewport]
    /\ UNCHANGED <<vpGuards, fbVars, enVars, dvaVars, objVars, moreVars>>

\* Drop for PushViewport, of the i-th live guard: reapply prev.
PushViewport_drop(i) ==
    /\ i \in 1..Len(vpGuards)
    /\ gl_viewport(vpGuards[i].prev)
    /\ vpGuards' = RemoveAt(vpGuards, i)
    /\ vpEv' = [op |-> "drop", before |-> vpGuards[i].before]
    /\ UNCHANGED <<fbVars, enVars, dvaVars, objVars, moreVars>>

\* ------------------------------------------------------- BinderFramebuffer
Targets == {"draw", "read"}
FbNames == 0..NFramebuffers
Framebuffers == 1..NFramebuffers

\* Option<glow::Framebuffer> as a number: None is 0, the default framebuffer.
None == 0

\* gl.bind_framebuffer(TGT::TARGET, id): DRAW_FRAMEBUFFER and READ_FRAMEBUFFER
\* are bound separately.
gl_bind_framebuffer(tgt, id) == fbBound' = [fbBound EXCEPT ![tgt] = id]

\* gl.get_parameter_i32(TGT::GET_BINDING) as u32.
gl_get_binding(tgt) == fbBound[tgt]

\* NonZeroU32::new(id).map(NativeFramebuffer): no handle for the name 0.
NonZeroU32_new(id) == IF id = 0 THEN None ELSE id

FbNoEv == [op |-> "none", tgt |-> "draw", before |-> 0, ctor |-> "none"]

FbInit ==
    /\ fbBound \in [Targets -> FbNames]
    /\ fbGuards = <<>>
    /\ fbEv = FbNoEv

FbIdle ==
    /\ fbBound = [t \in Targets |-> 0]
    /\ fbGuards = <<>>
    /\ fbEv = FbNoEv

\* BinderFramebuffer::new: capture the target's binding, change nothing.
BinderFramebuffer_new(tgt) ==
    /\ Len(fbGuards) < MaxGuards
    /\ fbGuards' = Append(fbGuards,
           [tgt |-> tgt, id |-> NonZeroU32_new(gl_get_binding(tgt)),
            ctor |-> "new", before |-> fbBound[tgt]])
    /\ fbEv' = [op |-> "new", tgt |-> tgt, before |-> fbBound[tgt], ctor |-> "new"]
    /\ UNCHANGED <<fbBound, vpVars, enVars, dvaVars, objVars, moreVars>>

\* BinderFramebuffer::bind: bind fb at once; the stored id is None.
BinderFramebuffer_bind(tgt, fb) ==
    /\ Len(fbGuards) < MaxGuards
    /\ gl_bind_framebuffer(tgt, fb)
    /\ fbGuards' = Append(fbGuards,
           [tgt |-> tgt, id |-> None, ctor |-> "bind", before |-> fbBound[tgt]])
    /\ fbEv' = [op |-> "bind", tgt |-> tgt, before |-> fbBound[tgt], ctor |-> "bind"]
    /\ UNCHANGED <<vpVars, enVars, dvaVars, objVars, moreVars>>

\* BinderFramebuffer::rebind on the i-th live binder.
BinderFramebuffer_rebind(i, fb) ==
    /\ i \in 1..Len(fbGuards)
    /\ gl_bind_framebuffer(fbGuards[i].tgt, fb)
    /\ fbEv' = [op |-> "rebind", tgt |-> fbGuards[i].tgt,
                before |-> fbBound[fbGuards[i].tgt], ctor |-> fbGuards[i].ctor]
    /\ UNCHANGED <<fbGuards, vpVars, enVars, dvaVars, objVars, moreVars>>

\* Drop for BinderFramebuffer, of the i-th live binder: bind the stored id.
BinderFramebuffer_drop(i) ==
    /\ i \in 1..Len(fbGuards)
    /\ gl_bind_framebuffer(fbGuards[i].tgt, fbGuards[i].id)
    /\ fbGuards' = RemoveAt(fbGuards, i)
    /\ fbEv' = [op |-> "drop", tgt |-> fbGuards[i].tgt,
                before |-> fbGuards[i].before, ctor |-> fbGuards[i].ctor]
    /\ UNCHANGED <<vpVars, enVars, dvaVars, objVars, moreVars>>

\* ------------------------------------------------ EnablerVertexAttribArray
Slots == 0..(NSlots - 1)

\* gl.enable_vertex_attrib_array(id) / gl.disable_vertex_attrib_array(id):
\* the driver keeps one flag per slot.
gl_enable_vertex_attrib_array(id) == slotOn' = slotOn \cup {id}

gl_disable_vertex_attrib_array(id) == slotOn' = slotOn \ {id}

EnInit ==
    /\ slotOn = {}
    /\ enGuards = <<>>
    /\ enCnt = [s \in Slots |-> 0]
    /\ disCnt = [s \in Slots |-> 0]
    /\ enLifo = TRUE

EnIdle == EnInit

\* EnablerVertexAttribArray::enable(gl, id).  The counters start again when
\* the first guard of a new sequence is constructed.
Enabler_enable(id) ==
    LET fresh == enGuards = <<>>
        e0 == IF fresh THEN [s \in Slots |-> 0] ELSE enCnt
        d0 == IF fresh THEN [s \in Slots |-> 0] ELSE disCnt
    IN  /\ Len(enGuards) < MaxGuards
        /\ e0[id] < MaxEnables
        /\ gl_enable_vertex_attrib_array(id)
        /\ enGuards' = Append(enGuards, [id |-> id])
        /\ enCnt' = [e0 EXCEPT ![id] = @ + 1]
        /\ disCnt' = d0
        /\ enLifo' = (fresh \/ enLifo)
        /\ UNCHANGED <<vpVars, fbVars, dvaVars, objVars, moreVars>>

\* A drop that forgets the driver call.
Enabler_drop_forgets(i) ==
    /\ i \in 1..Len(enGuards)
    /\ enGuards' = RemoveAt(enGuards, i)
    /\ enLifo' = (enLifo /\ i = Len(enGuards))
    /\ UNCHANGED <<slotOn, disCnt, enCnt, vpVars, fbVars, dvaVars, objVars, moreVars>>

\* Drop for EnablerVertexAttribArray, of the i-th live guard: disable the
\* guard's own slot.
Enabler_drop(i) ==
    /\ i \in 1..Len(enGuards)
    /\ gl_disable_vertex_attrib_array(enGuards[i].id)
    /\ disCnt' = [disCnt EXCEPT ![enGuards[i].id] = @ + 1]
    /\ enGuards' = RemoveAt(enGuards, i)
    /\ enLifo' = (enLifo /\ i = Len(enGuards))
    /\ UNCHANGED <<enCnt, vpVars, fbVars, dvaVars, objVars, moreVars>>

\* ------------------------------------------------------ DynamicVertexArray
Vals == 0..(NVals - 1)
RecSeqs == UNION {[1..n -> Vals] : n \in 0..MaxLen}

\* The name of the array's own buffer, self.buf.id(), and of another buffer.
BufId == 1
OtherBufId == 2

\* as_u8_slice(&self.data): the records' memory, size_of_val(data) bytes.  A
\* record keeps its value in its first byte.
as_u8_slice(d) ==
    [k \in 1..(Len(d) * RecSize) |->
        IF (k - 1) % RecSize = 0 THEN d[((k - 1) \div RecSize) + 1] ELSE 0]

\* gl.buffer_data_u8_slice(ARRAY_BUFFER, bytes, DYNAMIC_DRAW): a new data
\* store holding exactly the bytes.
gl_buffer_data(store, bytes) == bytes

\* A sub-range upload that writes nothing.
gl_buffer_sub_data_lost(store, off, bytes) == store

\* gl.buffer_sub_data_u8_slice(ARRAY_BUFFER, offset, bytes): overwrite a range
\* of the existing store; a range past its end is rejected (INVALID_VALUE).
gl_buffer_sub_data(store, off, bytes) ==
    IF off + Len(bytes) > Len(store)
    THEN store
    ELSE [k \in 1..Len(store) |->
             IF k > off /\ k <= off + Len(bytes) THEN bytes[k - off] ELSE store[k]]

\* A comparison that also reallocates at equal size.
NeedsRealloc_ge(n, bl) == n >= bl

\* A reallocation whenever the size is another one.
NeedsRealloc_changed(n, bl) == n # bl

\* self.data.len() > self.buf_len.get()
NeedsRealloc(n, bl) == n > bl

\* A reallocation that leaves the recorded size as it was.
RecordedLen_stale(n, bl) == bl

\* self.buf_len.set(self.data.len())
RecordedLen(n, bl) == n

\* An upload on every call.
UploadWanted_always(d) == TRUE

\* if self.dirty.get()
UploadWanted(d) == d

\* A flag cleared by the reallocating path only.
DirtyAfterUpload_full_only(up) == up # "full"

\* self.dirty.set(false), after either upload.
DirtyAfterUpload(up) == FALSE

\* DynamicVertexArray::bind_buffer as a function of the array's state a: the
\* state it leaves and the upload it issued (up: "none", "sub" or "full";
\* bytes: the size handed to the driver; off: the offset of a sub upload).
\* The buffer is bound to ARRAY_BUFFER before either upload, so the upload
\* goes to the array's own store.
bind_buffer_of(a) ==
    LET bytes == as_u8_slice(a.data)
        noop == [gpu |-> a.gpu, buf_len |-> a.buf_len, dirty |-> a.dirty,
                 arrayBuffer |-> a.arrayBuffer, up |-> "none", bytes |-> 0, off |-> 0]
    IN  IF Len(a.data) = 0 THEN noop
        ELSE IF ~UploadWanted(a.dirty)
             THEN [noop EXCEPT !.arrayBuffer = BufId]
        ELSE IF NeedsRealloc(Len(a.data), a.buf_len)
             THEN [gpu |-> gl_buffer_data(a.gpu, bytes),
                   buf_len |-> RecordedLen(Len(a.data), a.buf_len),
                   dirty |-> DirtyAfterUpload("full"), arrayBuffer |-> BufId,
                   up |-> "full", bytes |-> Len(bytes), off |-> 0]
        ELSE [gpu |-> gl_buffer_sub_data(a.gpu, 0, bytes), buf_len |-> a.buf_len,
              dirty |-> DirtyAfterUpload("sub"), arrayBuffer |-> BufId,
              up |-> "sub", bytes |-> Len(bytes), off |-> 0]

\* The array, and the driver state bind_buffer works on, as they are now.
TheArray ==
    [data |-> data, gpu |-> gpu, buf_len |-> buf_len, dirty |-> dirty,
     arrayBuffer |-> arrayBuffer]

\* bind_buffer on the array as it is now.
bind_buffer == bind_buffer_of(TheArray)

\* What an operation leaves in ev: its name, the state it found, the upload
\* it issued, and the index and value of an indexed access.
DvaEv(op, up, bytes, i, v) ==
    [op |-> op, dirty0 |-> dirty, len0 |-> Len(data), buf0 |-> buf_len,
     alloc0 |-> Len(gpu), up |-> up, bytes |-> bytes, off |-> 0, i |-> i, v |-> v]

\* The state bind_buffer leaves, for the operation op that called it.
ApplyBind(op) ==
    LET b == bind_buffer
    IN  /\ gpu' = b.gpu
        /\ buf_len' = b.buf_len
        /\ dirty' = b.dirty
        /\ arrayBuffer' = b.arrayBuffer
        /\ maxUp' = IF b.bytes \div RecSize > maxUp THEN b.bytes \div RecSize ELSE maxUp
        /\ ev' = [DvaEv(op, b.up, b.bytes, 0, 0) EXCEPT !.off = b.off]
        /\ UNCHANGED data

\* DynamicVertexArray::new / from_data: an array holding d, nothing uploaded.
DvaInit ==
    /\ data \in RecSeqs
    /\ gpu = <<>>
    /\ buf_len = 0
    /\ dirty = TRUE
    /\ arrayBuffer \in {0, OtherBufId}
    /\ ev = [op |-> "new", dirty0 |-> TRUE, len0 |-> 0, buf0 |-> 0,
             alloc0 |-> 0, up |-> "none", bytes |-> 0, off |-> 0, i |-> 0, v |-> 0]
    /\ hist = <<>>
    /\ maxUp = 0

DvaIdle ==
    /\ data = <<>>
    /\ gpu = <<>>
    /\ buf_len = 0
    /\ dirty = TRUE
    /\ arrayBuffer = 0
    /\ ev = [op |-> "new", dirty0 |-> TRUE, len0 |-> 0, buf0 |-> 0,
             alloc0 |-> 0, up |-> "none", bytes |-> 0, off |-> 0, i |-> 0, v |-> 0]
    /\ hist = <<>>
    /\ maxUp = 0

\* hist after a set of n records: the set/bind_buffer calls that now end a
\* run  set; bind_buffer; set; bind_buffer.
HistSet(n) ==
    LET e == <<"set", "none", n, 0>>
    IN  IF Len(hist) = 2 THEN Append(hist, e)
        ELSE IF Len(hist) = 4 THEN <<hist[3], hist[4], e>>
        ELSE <<e>>

\* hist after a bind_buffer that issued upload up of n records.
HistBind(up, n, m) ==
    IF Len(hist) \in {1, 3} THEN Append(hist, <<"bind", up, n, m>>) ELSE <<>>

\* DynamicVertexArray::set(d)
Dva_set(d) ==
    /\ dirty' = TRUE
    /\ data' = d
    /\ ev' = DvaEv("set", "none", 0, 0, 0)
    /\ hist' = HistSet(Len(d))
    /\ UNCHANGED <<gpu, buf_len, arrayBuffer, maxUp, vpVars, fbVars, enVars, objVars, moreVars>>

\* Index::index(i): &self.data[i], index i counted from 0.
Dva_index_value(i) == data[i + 1]

\* Index::index(i) with a valid index: a read.
Dva_index(i) ==
    /\ i < Len(data)
    /\ ev' = DvaEv("index", "none", 0, i, Dva_index_value(i))
    /\ hist' = <<>>
    /\ UNCHANGED <<data, gpu, buf_len, dirty, arrayBuffer, maxUp,
                   vpVars, fbVars, enVars, objVars, moreVars>>

\* An indexed write that leaves the flag alone.
Dva_index_mut_unmarked(i, v) ==
    /\ i < Len(data)
    /\ data' = [data EXCEPT ![i + 1] = v]
    /\ ev' = DvaEv("index_mut", "none", 0, i, v)
    /\ hist' = <<>>
    /\ UNCHANGED <<dirty, gpu, buf_len, arrayBuffer, maxUp, vpVars, fbVars, enVars, objVars, moreVars>>

\* IndexMut::index_mut(i) and the store of v through the reference it
\* returns.  The flag is set before the index is checked: an index out of
\* range panics with the flag set and the data as it was.
Dva_index_mut(i, v) ==
    /\ dirty' = TRUE
    /\ data' = IF i < Len(data) THEN [data EXCEPT ![i + 1] = v] ELSE data
    /\ ev' = DvaEv(IF i < Len(data) THEN "index_mut" ELSE "index_mut_panic",
                   "none", 0, i, v)
    /\ hist' = <<>>
    /\ UNCHANGED <<gpu, buf_len, arrayBuffer, maxUp, vpVars, fbVars, enVars, objVars, moreVars>>

\* DynamicVertexArray::bind_buffer()
Dva_bind_buffer ==
    /\ ApplyBind("bind_buffer")
    /\ hist' = HistBind(bind_buffer.up, bind_buffer.bytes \div RecSize, maxUp')
    /\ UNCHANGED <<vpVars, fbVars, enVars, objVars, moreVars>>

\* Program::draw with the array as attribute source: nothing when the array
\* reports no vertex, else bind (bind_buffer, then the slots) and the draw
\* call; the slots the bind enabled are disabled again before it returns.
Dva_draw ==
    /\ IF Len(data) = 0
       THEN /\ ev' = DvaEv("draw", "none", 0, 0, 0)
            /\ UNCHANGED <<data, gpu, buf_len, dirty, arrayBuffer, maxUp>>
       ELSE ApplyBind("draw")
    /\ hist' = <<>>
    /\ UNCHANGED <<vpVars, fbVars, enVars, objVars, moreVars>>

\* Range::len of start..end
RangeLen(start, end) == IF end > start THEN end - start ELSE 0

\* Program::draw with the view sub(start..end) as attribute source: the view
\* reports the length of the range, its bind calls the array's bind_buffer.
Dva_draw_sub(start, end) ==
    /\ IF RangeLen(start, end) = 0
       THEN /\ ev' = DvaEv("draw_sub", "none", 0, 0, 0)
            /\ UNCHANGED <<data, gpu, buf_len, dirty, arrayBuffer, maxUp>>
       ELSE ApplyBind("draw_sub")
    /\ hist' = <<>>
    /\ UNCHANGED <<vpVars, fbVars, enVars, objVars, moreVars>>

\* ----------------------------------------------------- GPU object wrappers
\* The wrappers with a public generate().
GenKinds == {"Texture", "Buffer", "VertexArray", "Renderbuffer", "Framebuffer"}
Kinds == GenKinds \cup {"Program", "Shader"}
Handles == 1..NHandles
WrapperIds == 1..NWrappers

FreeWrapper == [kind |-> "none", id |-> 0, st |-> "free"]

\* A program with nothing in its catalogs.
NoCatalogs == [uniforms |-> <<>>, attribs |-> <<>>]

NoLookup == [op |-> "none", name |-> "", ret |-> <<>>]

ObjInit ==
    /\ wrappers = [w \in WrapperIds |-> FreeWrapper]
    /\ glLive = {}
    /\ delCnt = [w \in WrapperIds |-> 0]
    /\ fsCalls = <<>>
    /\ fsRet = "none"
    /\ fsIn = NoCatalogs
    /\ fsProg = NoCatalogs
    /\ lookup = NoLookup

ObjIdle == ObjInit

\* generate(gl) of Texture, Buffer, VertexArray, Renderbuffer, Framebuffer
\* when gl.create_*() returns Ok(id): the driver hands out a name that is not
\* in use for that kind of object.
Wrapper_generate(w, kind, id) ==
    /\ wrappers[w].st = "free"
    /\ kind \in GenKinds
    /\ <<kind, id>> \notin glLive
    /\ glLive' = glLive \cup {<<kind, id>>}
    /\ wrappers' = [wrappers EXCEPT ![w] = [FreeWrapper EXCEPT !.kind = kind, !.id = id, !.st = "alive"]]
    /\ UNCHANGED <<delCnt, fsCalls, fsRet, fsIn, fsProg, lookup, vpVars, fbVars, enVars, dvaVars, moreVars>>

\* generate(gl) when gl.create_*() returns Err: to_gl_err(gl), no wrapper.
Wrapper_generate_err(kind) ==
    /\ kind \in GenKinds
    /\ UNCHANGED <<wrappers, glLive, delCnt, fsCalls, fsRet, fsIn, fsProg, lookup, vpVars, fbVars, enVars, dvaVars, moreVars>>

\* A wrapper destroyed without the delete call.
Wrapper_drop_leaks(w) ==
    /\ wrappers[w].st = "alive"
    /\ wrappers' = [wrappers EXCEPT ![w].st = "dropped", ![w].id = 0]
    /\ UNCHANGED <<glLive, delCnt, fsCalls, fsRet, fsIn, fsProg, lookup, vpVars, fbVars, enVars, dvaVars, moreVars>>

\* Drop for Texture, Buffer, VertexArray, Renderbuffer, Framebuffer, Program:
\* gl.delete_*(self.id).
Wrapper_drop(w) ==
    /\ wrappers[w].st = "alive"
    /\ glLive' = glLive \ {<<wrappers[w].kind, wrappers[w].id>>}
    /\ delCnt' = [delCnt EXCEPT ![w] = @ + 1]
    /\ wrappers' = [wrappers EXCEPT ![w].st = "dropped", ![w].id = 0]
    /\ UNCHANGED <<fsCalls, fsRet, fsIn, fsProg, lookup, vpVars, fbVars, enVars, dvaVars, moreVars>>

\* Texture::id
Texture_id(w) == wrappers[w].id

\* An into_id that lets the wrapper drop.
Texture_into_id_drops(w) ==
    /\ wrappers[w].st = "alive"
    /\ wrappers[w].kind = "Texture"
    /\ glLive' = glLive \ {<<"Texture", wrappers[w].id>>}
    /\ delCnt' = [delCnt EXCEPT ![w] = @ + 1]
    /\ wrappers' = [wrappers EXCEPT ![w].st = "escaped"]
    /\ UNCHANGED <<fsCalls, fsRet, fsIn, fsProg, lookup, vpVars, fbVars, enVars, dvaVars, moreVars>>

\* Texture::into_id: the id, and std::mem::forget(self): no Drop runs.  The
\* wrapper is gone; its entry keeps, as id, the handle that was returned.
Texture_into_id(w) ==
    /\ wrappers[w].st = "alive"
    /\ wrappers[w].kind = "Texture"
    /\ wrappers' = [wrappers EXCEPT ![w].st = "escaped"]
    /\ UNCHANGED <<glLive, delCnt, fsCalls, fsRet, fsIn, fsProg, lookup, vpVars, fbVars, enVars, dvaVars, moreVars>>

\* ---------------------------------------------------- Program::from_source
\* What the driver answers to the compilation of one stage, and to the
\* resolution of one active uniform or attribute.
ShOutcomes == {"ok", "create_fail", "compile_fail"}
ReflOutcomes == {"ok", "nodesc", "noloc"}
ReflSeqs(n) == UNION {[1..k -> ReflOutcomes] : k \in 0..n}

\* The inputs of from_source: the driver's answer per stage (g: "absent" when
\* geometry is None), to create_program and to the link, and for each active
\* uniform and attribute, at most n of each.
\* An answer to a call that is never made (a stage after one that failed,
\* the link of a program that was not created) is left at one fixed value.
FsInputs(n) ==
    {i \in [v : ShOutcomes, f : ShOutcomes, g : ShOutcomes \cup {"absent"},
            p : {"ok", "fail"}, link : BOOLEAN, us : ReflSeqs(n), as : ReflSeqs(n)] :
        /\ i.v # "ok" => i.f = "ok"
        /\ (i.v # "ok" \/ i.f # "ok") => i.g = "absent"
        /\ (i.v # "ok" \/ i.f # "ok" \/ i.g \notin {"ok", "absent"}) => i.p = "ok"
        /\ (i.v # "ok" \/ i.f # "ok" \/ i.g \notin {"ok", "absent"} \/ i.p # "ok") => i.link
        /\ (i.v # "ok" \/ i.f # "ok" \/ i.g \notin {"ok", "absent"} \/ i.p # "ok" \/ ~i.link)
              => (i.us = <<>> /\ i.as = <<>>)}

\* The names the driver gives the stages' shader objects.
VshId == 1
FshId == 2
GshId == 3

\* A compile whose failed stage is never deleted.
Shader_compile_calls_leaked(id, out) ==
    IF out = "create_fail"
    THEN << <<"create_shader", 0>>, <<"get_error", 0>> >>
    ELSE << <<"create_shader", id>>, <<"shader_source", id>>,
            <<"compile_shader", id>>, <<"get_shader_compile_status", id>> >>
         \o (IF out = "compile_fail"
             THEN << <<"get_shader_info_log", id>>, <<"get_error", 0>> >>
             ELSE <<>>)

\* Shader::compile: its driver calls, <<call, name>>.  A stage that fails to
\* compile is dropped, and so deleted, before compile returns.
Shader_compile_calls(id, out) ==
    IF out = "create_fail"
    THEN << <<"create_shader", 0>>, <<"get_error", 0>> >>
    ELSE << <<"create_shader", id>>, <<"shader_source", id>>,
            <<"compile_shader", id>>, <<"get_shader_compile_status", id>> >>
         \o (IF out = "compile_fail"
             THEN << <<"get_shader_info_log", id>>, <<"get_error", 0>>,
                     <<"delete_shader", id>> >>
             ELSE <<>>)

\* The reflection loop over the active uniforms (or attributes): the
\* description of each, then, when there is one, its location.
RECURSIVE Reflect_calls(_, _, _, _)
Reflect_calls(outs, i, descCall, locCall) ==
    IF i > Len(outs) THEN <<>>
    ELSE << <<descCall, i - 1>> >>
         \o (IF outs[i] = "nodesc" THEN <<>> ELSE << <<locCall, i - 1>> >>)
         \o Reflect_calls(outs, i + 1, descCall, locCall)

\* What the driver reports for the i-th active uniform (kind "u") or
\* attribute (kind "a") of n: the name of get_active_uniform and the location
\* of get_uniform_location, which need not follow the enumeration order.
ActiveName(kind, i) == kind \o ToString(i)
ActiveLocation(n, i) == n - i

\* A reflection loop that stops at the first entry it cannot resolve.
RECURSIVE Reflect_catalog_stops(_, _, _)
Reflect_catalog_stops(outs, i, kind) ==
    IF i > Len(outs) \/ outs[i] # "ok" THEN <<>>
    ELSE << [name |-> ActiveName(kind, i), location |-> ActiveLocation(Len(outs), i)] >>
         \o Reflect_catalog_stops(outs, i + 1, kind)

\* The catalog the reflection loop builds: an entry is pushed for each index
\* whose description and location are both Some, the others `continue`.
RECURSIVE Reflect_catalog(_, _, _)
Reflect_catalog(outs, i, kind) ==
    IF i > Len(outs) THEN <<>>
    ELSE (IF outs[i] = "ok"
          THEN << [name |-> ActiveName(kind, i),
                   location |-> ActiveLocation(Len(outs), i)] >>
          ELSE <<>>)
         \o Reflect_catalog(outs, i + 1, kind)

\* The catalogs of the Program from_source returns.
from_source_catalogs(inp) ==
    [uniforms |-> Reflect_catalog(inp.us, 1, "u"), attribs |-> Reflect_catalog(inp.as, 1, "a")]

\* A from_source that compiles the fragment stage whatever became of the
\* vertex stage.
from_source_compiles_on(inp, pid) ==
    [ok |-> FALSE,
     calls |-> << <<"get_error", 0>> >> \o Shader_compile_calls(VshId, inp.v)
               \o Shader_compile_calls(FshId, inp.f)]

\* Program::from_source: the driver calls it issues, in order, and whether it
\* returns Ok.  Locals are dropped in reverse order of declaration (gsh, fsh,
\* vsh; prg first once it exists); the geometry stage is moved into the
\* `if let` that attaches it and dropped at the end of that block.
from_source(inp, pid) ==
    LET purge == << <<"get_error", 0>> >>
        cv == Shader_compile_calls(VshId, inp.v)
        cf == Shader_compile_calls(FshId, inp.f)
        cg == IF inp.g = "absent" THEN <<>> ELSE Shader_compile_calls(GshId, inp.g)
        hasG == inp.g # "absent"
        dropV == << <<"delete_shader", VshId>> >>
        dropF == << <<"delete_shader", FshId>> >>
        dropG == IF hasG THEN << <<"delete_shader", GshId>> >> ELSE <<>>
        attach == << <<"create_program", pid>>, <<"attach_shader", VshId>>,
                     <<"attach_shader", FshId>> >>
                  \o (IF hasG THEN << <<"attach_shader", GshId>> >> \o dropG ELSE <<>>)
                  \o << <<"link_program", pid>>, <<"get_program_link_status", pid>> >>
        reflect == << <<"get_active_uniforms", pid>> >>
                   \o Reflect_calls(inp.us, 1, "get_active_uniform", "get_uniform_location")
                   \o << <<"get_active_attributes", pid>> >>
                   \o Reflect_calls(inp.as, 1, "get_active_attribute", "get_attrib_location")
    IN  IF inp.v # "ok" THEN [ok |-> FALSE, calls |-> purge \o cv]
        ELSE IF inp.f # "ok" THEN [ok |-> FALSE, calls |-> purge \o cv \o cf \o dropV]
        ELSE IF hasG /\ inp.g # "ok"
             THEN [ok |-> FALSE, calls |-> purge \o cv \o cf \o cg \o dropF \o dropV]
        ELSE IF inp.p # "ok"
             THEN [ok |-> FALSE,
                   calls |-> purge \o cv \o cf \o cg
                             \o << <<"create_program", 0>>, <<"get_error", 0>> >>
                             \o dropG \o dropF \o dropV]
        ELSE IF ~inp.link
             THEN [ok |-> FALSE,
                   calls |-> purge \o cv \o cf \o cg \o attach
                             \o << <<"get_program_info_log", pid>>, <<"get_error", 0>>,
                                   <<"delete_program", pid>> >>
                             \o dropF \o dropV]
        ELSE [ok |-> TRUE,
              calls |-> purge \o cv \o cf \o cg \o attach \o reflect \o dropF \o dropV]

\* Program::from_source(gl, vertex, fragment, geometry): on Ok the Program
\* wrapper w owns the program object pid the driver created.
Program_from_source(w, inp, pid) ==
    LET r == from_source(inp, pid)
    IN  /\ wrappers[w].st = "free"
        /\ <<"Program", pid>> \notin glLive
        /\ fsCalls' = r.calls
        /\ fsRet' = IF r.ok THEN "ok" ELSE "err"
        /\ fsIn' = [uniforms |-> inp.us, attribs |-> inp.as]
        /\ fsProg' = IF r.ok THEN from_source_catalogs(inp) ELSE NoCatalogs
        /\ IF r.ok
           THEN /\ glLive' = glLive \cup {<<"Program", pid>>}
                /\ wrappers' = [wrappers EXCEPT ![w] =
                                   [kind |-> "Program", id |-> pid, st |-> "alive"]]
           ELSE UNCHANGED <<glLive, wrappers>>
        /\ UNCHANGED <<delCnt, lookup, vpVars, fbVars, enVars, dvaVars, moreVars>>

\* ------------------------------------------------------- the driver's error
\* glow::NO_ERROR, and the codes the driver records for a failed call.
NO_ERROR == 0
GlErrors == {1, 2}
INVALID_VALUE == 1

\* A failing call records its code only while no code is recorded: the first
\* error stays until it is read.  The driver keeps a single flag.
gl_record(flag, e) == IF flag = NO_ERROR THEN e ELSE flag

\* gl.get_error() returns the recorded code and leaves the flag clear.
gl_get_error(flag) == [code |-> flag, flag |-> NO_ERROR]

\* A check that reads the code and leaves it recorded.
check_gl_keeps(flag) == [ok |-> flag = NO_ERROR, err |-> flag, flag |-> flag]

\* check_gl(gl): Ok(()) when get_error() is NO_ERROR, else Err(GLError(err)).
check_gl(flag) ==
    LET r == gl_get_error(flag)
    IN  [ok |-> r.code = NO_ERROR, err |-> r.code, flag |-> r.flag]

\* Nothing drawn, negotiated or bound.
RbNoEv == [op |-> "none", before |-> 0, rebound |-> FALSE]

NoDraw ==
    [len |-> 0, flag0 |-> NO_ERROR, slots0 |-> {}, array0 |-> 0, src |-> 0, prog |-> 0,
     prov |-> 0, e |-> NO_ERROR]

\* ------------------------------------------------- the callback registry
\* The user closures registered over a run, in order of registration.
Closures == 1..MaxClosures

CbNoEv == [op |-> "none", id |-> 0, frame |-> 0, cl |-> 0, ran |-> 0]

\* Before the first do_frame: no Ui, BackendLanguageUserData null.
CbInit ==
    /\ callbacks = <<>>
    /\ uiLive = FALSE
    /\ frameNo = 0
    /\ tokens = {}
    /\ invoked = [c \in Closures |-> 0]
    /\ fired = [c \in Closures |-> 0]
    /\ cbEv = CbNoEv

\* ---------------------------------------------------------------- Context
\* tick tells one call from the next: every call flips it.
CtxNoEv == [op |-> "new", ret |-> "none", font |-> 0, tick |-> 0]

\* Context::new: pending_atlas true, no fonts; the native context is fresh,
\* its atlas empty, its display size and scale not yet set.
CtxInit ==
    /\ pending_atlas = TRUE
    /\ fonts = <<>>
    /\ io = [DisplaySize |-> 0, DisplayFramebufferScale |-> 1, FontGlobalScale |-> <<1, 1>>]
    /\ atlas = <<>>
    /\ ctxEv = CtxNoEv
    /\ sinceUpdate = {"new"}
    /\ addCalls = 0

MoreIdle ==
    /\ glErr = NO_ERROR
    /\ curProgram = 0
    /\ drIn = NoDraw
    /\ drCalls = <<>>
    /\ drRet = "none"
    /\ msIn = [accepts |-> {}, e |-> NO_ERROR, flag0 |-> NO_ERROR]
    /\ msCalls = <<>>
    /\ msRet = 0
    /\ rbBound = 0
    /\ rbGuards = <<>>
    /\ rbEv = RbNoEv
    /\ CbInit
    /\ CtxInit

\* ------------------------------------------------------------ Program::draw
\* The width of i32, scaled down; usize is wide enough for every count and
\* offset that occurs here.
I32Bits == 4

\* The least count that does not fit an i32.
BigCount == 2 ^ (I32Bits - 1)

\* `n as i32` of a usize n: the low bits, in two's complement.
as_i32(n) ==
    LET m == n % (2 ^ I32Bits)
    IN  IF m >= BigCount THEN m - 2 ^ I32Bits ELSE m

\* A driver call: its name and arguments.
Call(c, x1, x2, x3, x4) == <<c, x1, x2, x3, x4>>

\* attrib!{ struct Vertex { pos: f32, col: u32 } }: name, component count and
\* scalar type (AttribField::detail) and offset_of of each field, in
\* declaration order.
VertexFields ==
    << [name |-> "pos", n |-> 1, t |-> "FLOAT", offs |-> 0],
       [name |-> "col", n |-> 1, t |-> "UNSIGNED_INT", offs |-> 1] >>

\* A provider that answers every attribute with its first field.
AttribProvider_apply_any(fields, name) == << fields[1] >>

\* AttribProvider::apply(a) as attrib! generates it: the first field whose
\* name is the attribute's, <<>> for None.
AttribProvider_apply(fields, name) ==
    LET idx == {i \in 1..Len(fields) : fields[i].name = name}
    IN  IF idx = {} THEN <<>>
        ELSE << fields[CHOOSE i \in idx : \A j \in idx : i <= j] >>

\* A macro that takes every field by its plain name.
UniformName_plain(f) == f.name

\* uniform!{ @NAME }: a field of array type goes by the name of its first
\* element.
UniformName(f) == IF f.arr THEN f.name \o "[0]" ELSE f.name

\* UniformField::apply of a field that is no array: one set-uniform call at
\* the location, with the field's value.
UniformField_apply(f, location) == << Call("uniform", location, f.val, 0, 0) >>

\* A provider that applies an array as it applies its first element.
UniformProvider_apply_first(prov, u) ==
    LET idx == {i \in 1..Len(prov) : UniformName(prov[i]) = u.name}
        f == prov[CHOOSE i \in idx : \A j \in idx : i <= j]
    IN  IF idx = {} THEN [r |-> "skip", calls |-> <<>>]
        ELSE [r |-> "set", calls |-> UniformField_apply(f, u.location)]

\* UniformProvider::apply(u) as uniform! generates it: the first field whose
\* name is the uniform's is applied, and the apply of an array is todo!().
UniformProvider_apply(prov, u) ==
    LET idx == {i \in 1..Len(prov) : UniformName(prov[i]) = u.name}
        f == prov[CHOOSE i \in idx : \A j \in idx : i <= j]
    IN  IF idx = {} THEN [r |-> "skip", calls |-> <<>>]
        ELSE IF f.arr THEN [r |-> "panic", calls |-> <<>>]
        ELSE [r |-> "set", calls |-> UniformField_apply(f, u.location)]

\* for u in &self.uniforms { uniforms.apply(u) }: the set-uniform calls, up
\* to the first one that panics.
RECURSIVE Uniforms_apply(_, _, _)
Uniforms_apply(us, i, prov) ==
    IF i > Len(us) THEN [calls |-> <<>>, panic |-> FALSE]
    ELSE LET r == UniformProvider_apply(prov, us[i])
             rest == Uniforms_apply(us, i + 1, prov)
         IN  IF r.r = "panic" THEN [calls |-> <<>>, panic |-> TRUE]
             ELSE [calls |-> r.calls \o rest.calls, panic |-> rest.panic]

\* The attribute source lists: NilVertexAttrib(n), the array, a view
\* sub(start..end) of it, and a pair of those.
NilSrc(n) == [kind |-> "nil", n |-> n, start |-> 0, end |-> 0]
DvaSrcOf(fields) == [kind |-> "dva", n |-> 0, start |-> 0, end |-> 0, fields |-> fields]
SubSrcOf(fields, start, end) ==
    [kind |-> "sub", n |-> 0, start |-> start, end |-> end, fields |-> fields]
DvaSrc == DvaSrcOf(VertexFields)
SubSrc(start, end) == SubSrcOf(VertexFields, start, end)
PairSrc(s0, s1) == [kind |-> "pair", a0 |-> s0, a1 |-> s1]

\* AttribProviderList::len of a list that is not a pair, a the array.
Simple_len(s, a) ==
    CASE s.kind = "nil" -> s.n
      [] s.kind = "dva" -> Len(a.data)
      [] s.kind = "sub" -> RangeLen(s.start, s.end)

\* A pair that reports the length of its first member.
List_len_first(s, a) == IF s.kind = "pair" THEN Simple_len(s.a0, a) ELSE Simple_len(s, a)

\* AttribProviderList::len; of a pair, self.0.len().min(self.1.len()).
List_len(s, a) ==
    IF s.kind = "pair"
    THEN LET n0 == Simple_len(s.a0, a)
             n1 == Simple_len(s.a1, a)
         IN  IF n0 <= n1 THEN n0 ELSE n1
    ELSE Simple_len(s, a)

\* A list that never reports itself empty.
List_is_empty_never(s, a) == FALSE

\* AttribProviderList::is_empty
List_is_empty(s, a) == List_len(s, a) = 0

\* The driver calls of the bind_buffer that found a and reported b.
Bind_buffer_calls(a, b) ==
    IF Len(a.data) = 0 THEN <<>>
    ELSE << Call("bind_buffer", BufId, 0, 0, 0) >>
         \o (CASE b.up = "full" -> << Call("buffer_data", b.bytes, 0, 0, 0) >>
               [] b.up = "sub" -> << Call("buffer_sub_data", b.off, b.bytes, 0, 0) >>
               [] OTHER -> <<>>)

\* gl.vertex_attrib_pointer_f32(loc, size, ty, false, stride, offs): the call,
\* its scalar type last.
Pointer(loc, size, ty, stride, offs) ==
    Append(Call("vertex_attrib_pointer_f32", loc, size, stride, offs), ty)

\* for a in &p.attribs { if let Some((size, ty, offs)) = A::apply(a) {..} }:
\* a guard and an attribute pointer per matched attribute, the pointer at
\* offs + base with a stride of one record.  vas: the slots of the guards.
RECURSIVE Attribs_bind(_, _, _, _)
Attribs_bind(fields, attribs, i, base) ==
    IF i > Len(attribs) THEN [calls |-> <<>>, vas |-> <<>>]
    ELSE LET m == AttribProvider_apply(fields, attribs[i].name)
             loc == attribs[i].location
             rest == Attribs_bind(fields, attribs, i + 1, base)
         IN  IF m = <<>> THEN rest
             ELSE [calls |-> << Call("enable_vertex_attrib_array", loc, 0, 0, 0),
                                Pointer(loc, as_i32(m[1].n), m[1].t,
                                        as_i32(RecSize), as_i32(m[1].offs + base)) >>
                             \o rest.calls,
                   vas |-> << loc >> \o rest.vas]

\* The array a once bind_buffer has reported b.
Array_after(a, b) ==
    [a EXCEPT !.gpu = b.gpu, !.buf_len = b.buf_len, !.dirty = b.dirty,
              !.arrayBuffer = b.arrayBuffer]

\* AttribProviderList::bind of a list that is not a pair: the array it
\* leaves, its driver calls, and the slots of the guards it returns.
Simple_bind(s, p, a) ==
    IF s.kind = "nil" THEN [a |-> a, calls |-> <<>>, vas |-> <<>>]
    ELSE LET b == bind_buffer_of(a)
             base == IF s.kind = "sub" THEN RecSize * s.start ELSE 0
             k == Attribs_bind(s.fields, p.attribs, 1, base)
         IN  [a |-> Array_after(a, b),
              calls |-> Bind_buffer_calls(a, b) \o k.calls,
              vas |-> k.vas]

\* AttribProviderList::bind; a pair binds self.0, then self.1, and keeps both
\* results.
List_bind(s, p, a) ==
    IF s.kind = "pair"
    THEN LET k0 == Simple_bind(s.a0, p, a)
             k1 == Simple_bind(s.a1, p, k0.a)
         IN  [a |-> k1.a, calls |-> k0.calls \o k1.calls, vas |-> k0.vas \o k1.vas]
    ELSE Simple_bind(s, p, a)

\* A binding token whose guards are forgotten.
Drop_bufs_leaked(vas) == <<>>

\* Dropping the binding token: the guards disable their slots, first to last.
Drop_bufs(vas) ==
    [i \in 1..Len(vas) |-> Call("disable_vertex_attrib_array", vas[i], 0, 0, 0)]

\* The slots the calls leave enabled, started from on.
RECURSIVE SlotsAfter(_, _)
SlotsAfter(calls, on) ==
    IF calls = <<>> THEN on
    ELSE LET c == Head(calls)
         IN  SlotsAfter(Tail(calls),
                 IF c[1] = "enable_vertex_attrib_array" THEN on \cup {c[2]}
                 ELSE IF c[1] = "disable_vertex_attrib_array" THEN on \ {c[2]}
                 ELSE on)

\* glow::TRIANGLES
TRIANGLES == 4

\* Program::draw(uniforms, attribs, primitive) on program p with the array a
\* and the driver's error flag as found; e is the error the driver raises
\* for a call of this draw (NO_ERROR for none), a negative count is an error
\* of its own.  The result: how it ends, its calls in order ("eprintln" is
\* the line written to stderr), and the array, flag and current program it
\* leaves.  _bufs is dropped at the end of the block, after the check; a
\* panic in the uniforms unwinds before it exists.
draw(p, prov, src, e, a, flag) ==
    LET n == List_len(src, a)
        u == Uniforms_apply(p.uniforms, 1, prov)
        k == List_bind(src, p, a)
        count == as_i32(n)
        flag1 == gl_record(flag, IF count < 0 THEN INVALID_VALUE ELSE e)
        chk == check_gl(flag1)
        head == << Call("use_program", p.id, 0, 0, 0) >> \o u.calls
    IN  IF List_is_empty(src, a)
        THEN [ret |-> "ok", calls |-> <<>>, a |-> a, flag |-> flag, prog |-> curProgram]
        ELSE IF u.panic
        THEN [ret |-> "panic", calls |-> head, a |-> a, flag |-> gl_record(flag, e),
              prog |-> p.id]
        ELSE [ret |-> "ok",
              calls |-> head \o k.calls
                        \o << Call("draw_arrays", TRIANGLES, 0, count, 0),
                              Call("get_error", 0, 0, 0, 0) >>
                        \o (IF chk.ok THEN <<>> ELSE << Call("eprintln", chk.err, 0, 0, 0) >>)
                        \o Drop_bufs(k.vas),
              a |-> k.a, flag |-> chk.flag, prog |-> p.id]

\* Program::draw
Program_draw(p, prov, src, e) ==
    LET r == draw(p, prov, src, e, TheArray, glErr)
        uploaded == \E i \in 1..Len(r.calls) : r.calls[i][1] \in {"buffer_data", "buffer_sub_data"}
    IN  /\ drIn' = [len |-> List_len(src, TheArray), flag0 |-> glErr, slots0 |-> slotOn,
                    array0 |-> TheArray, src |-> src, prog |-> p, prov |-> prov, e |-> e]
        /\ drCalls' = r.calls
        /\ drRet' = r.ret
        /\ curProgram' = r.prog
        /\ glErr' = r.flag
        /\ slotOn' = SlotsAfter(r.calls, slotOn)
        /\ gpu' = r.a.gpu
        /\ buf_len' = r.a.buf_len
        /\ dirty' = r.a.dirty
        /\ arrayBuffer' = r.a.arrayBuffer
        /\ maxUp' = IF uploaded /\ Len(data) > maxUp THEN Len(data) ELSE maxUp
        /\ ev' = DvaEv("program_draw", "none", 0, 0, 0)
        /\ hist' = <<>>
        /\ UNCHANGED <<data, enGuards, enCnt, disCnt, enLifo, vpVars, fbVars, objVars,
                       msVars, rbVars, cbVars, ctxVars>>

\* The programs drawn with: the catalogs from_source built, uniforms and
\* attributes by name and location.
UniformEntry(name, location) == [name |-> name, location |-> location]
AttribEntry(name, location) == [name |-> name, location |-> location]
DrawPrograms ==
    {[id |-> 1, uniforms |-> c[1], attribs |-> c[2]] : c \in {
        << <<>>, <<>> >>,
        << <<UniformEntry("mvp", 0)>>, <<AttribEntry("pos", 0)>> >>,
        << <<UniformEntry("mvp", 0), UniformEntry("tex[0]", 1)>>,
           <<AttribEntry("col", 1), AttribEntry("pos", 0)>> >>,
        << <<UniformEntry("mvp", 1)>>, <<AttribEntry("nrm", 0), AttribEntry("pos", 1)>> >> }}

\* The uniform providers: uniform!{ struct U { mvp: Matrix4 } } and
\* uniform!{ struct U { mvp: Matrix4, tex: [i32; 2] } }.
UniformProviders ==
    { << [name |-> "mvp", arr |-> FALSE, val |-> 1] >>,
      << [name |-> "mvp", arr |-> FALSE, val |-> 1], [name |-> "tex", arr |-> TRUE, val |-> 2] >> }

\* The attribute source lists drawn with.
Counts == (0..MaxLen) \cup {BigCount}
SimpleSources ==
    {NilSrc(n) : n \in Counts} \cup {DvaSrc}
    \cup {SubSrc(r[1], r[2]) : r \in ((0..1) \X (0..MaxLen)) \cup {<<BigCount, BigCount + 1>>}}
DrawSources ==
    SimpleSources
    \cup {PairSrc(DvaSrc, NilSrc(n)) : n \in 0..1}
    \cup {PairSrc(NilSrc(1), DvaSrc), PairSrc(DvaSrc, SubSrc(0, 1))}

\* ------------------------------------- try_renderbuffer_storage_multisample
\* let all_samples = [16, 8, 4, 2];
all_samples == <<16, 8, 4, 2>>

\* A check that takes every attempt for accepted.
Ms_accepted_always(code) == TRUE

\* if gl.get_error() == 0
Ms_accepted(code) == code = 0

\* A purge that leaves the flag as it is.
Ms_purge_skipped(flag) == flag

\* `gl.get_error();` before an attempt: the flag it leaves.
Ms_purge(flag) == gl_get_error(flag).flag

\* gl.renderbuffer_storage_multisample(target, samples, ..): the flag it
\* leaves, the driver accepting the counts in accepts and raising e for the
\* others.
gl_renderbuffer_storage_multisample(flag, samples, accepts, e) ==
    IF samples \in accepts THEN flag ELSE gl_record(flag, e)

\* The loop `for samples in all_samples` from its i-th element on: what the
\* function returns, its driver calls in order, and the flag it leaves.
RECURSIVE try_from(_, _, _, _)
try_from(i, flag, accepts, e) ==
    IF i > Len(all_samples) THEN [ret |-> None, calls |-> <<>>, flag |-> flag]
    ELSE LET samples == all_samples[i]
             flag1 == Ms_purge(flag)
             flag2 == gl_renderbuffer_storage_multisample(flag1, samples, accepts, e)
             chk == gl_get_error(flag2)
             here == << <<"get_error", 0>>, <<"renderbuffer_storage_multisample", samples>>,
                        <<"get_error", 0>> >>
             rest == try_from(i + 1, chk.flag, accepts, e)
         IN  IF Ms_accepted(chk.code)
             THEN [ret |-> samples, calls |-> here, flag |-> chk.flag]
             ELSE [ret |-> rest.ret, calls |-> here \o rest.calls, flag |-> rest.flag]

\* try_renderbuffer_storage_multisample(gl, target, internalformat, w, h)
try_renderbuffer_storage_multisample(accepts, e) ==
    LET r == try_from(1, glErr, accepts, e)
    IN  /\ msIn' = [accepts |-> accepts, e |-> e, flag0 |-> glErr]
        /\ msCalls' = r.calls
        /\ msRet' = r.ret
        /\ glErr' = r.flag
        /\ UNCHANGED <<vpVars, fbVars, enVars, dvaVars, objVars, drwVars, rbVars, cbVars, ctxVars>>

\* Some other call on the context fails and leaves its code recorded.
Gl_call_fails(e) ==
    /\ glErr' = gl_record(glErr, e)
    /\ UNCHANGED <<vpVars, fbVars, enVars, dvaVars, objVars, drwVars, msVars, rbVars, cbVars, ctxVars>>

\* ------------------------------------------------------ BinderRenderbuffer
Renderbuffers == 1..NRenderbuffers

\* gl.bind_renderbuffer(glow::RENDERBUFFER, id), None written 0.
gl_bind_renderbuffer(id) == rbBound' = id

\* BinderRenderbuffer::bind(rb).  The binder keeps the context only; before
\* and rebound note what was bound when it was made and whether rebind was
\* called on it.
BinderRenderbuffer_bind(rb) ==
    /\ Len(rbGuards) < MaxGuards
    /\ gl_bind_renderbuffer(rb)
    /\ rbGuards' = Append(rbGuards, [before |-> rbBound, rebound |-> FALSE])
    /\ rbEv' = [op |-> "bind", before |-> rbBound, rebound |-> FALSE]
    /\ UNCHANGED <<glErr, vpVars, fbVars, enVars, dvaVars, objVars, drwVars, msVars, cbVars, ctxVars>>

\* BinderRenderbuffer::rebind(rb) on the i-th live binder
BinderRenderbuffer_rebind(i, rb) ==
    /\ i <= Len(rbGuards)
    /\ gl_bind_renderbuffer(rb)
    /\ rbGuards' = [rbGuards EXCEPT ![i].rebound = TRUE]
    /\ rbEv' = [op |-> "rebind", before |-> rbGuards[i].before, rebound |-> TRUE]
    /\ UNCHANGED <<glErr, vpVars, fbVars, enVars, dvaVars, objVars, drwVars, msVars, cbVars, ctxVars>>

\* A destruction that binds what was bound when the binder was made.
BinderRenderbuffer_drop_restores(i) ==
    /\ i <= Len(rbGuards)
    /\ gl_bind_renderbuffer(rbGuards[i].before)
    /\ rbGuards' = RemoveAt(rbGuards, i)
    /\ rbEv' = [op |-> "drop", before |-> rbGuards[i].before, rebound |-> rbGuards[i].rebound]
    /\ UNCHANGED <<glErr, vpVars, fbVars, enVars, dvaVars, objVars, drwVars, msVars, cbVars, ctxVars>>

\* Drop for BinderRenderbuffer, of the i-th live binder
BinderRenderbuffer_drop(i) ==
    /\ i <= Len(rbGuards)
    /\ gl_bind_renderbuffer(None)
    /\ rbGuards' = RemoveAt(rbGuards, i)
    /\ rbEv' = [op |-> "drop", before |-> rbGuards[i].before, rebound |-> rbGuards[i].rebound]
    /\ UNCHANGED <<glErr, vpVars, fbVars, enVars, dvaVars, objVars, drwVars, msVars, cbVars, ctxVars>>

\* ------------------------------------------------------- the specifications
NextViewport ==
    \/ PushViewport_new
    \/ \E r \in Rects : PushViewport_push(r)
    \/ \E r \in Rects : PushViewport_viewport(r)
    \/ \E i \in 1..MaxGuards : PushViewport_drop(i)

InitViewport == VpInit /\ FbIdle /\ EnIdle /\ DvaIdle /\ ObjIdle /\ MoreIdle

SpecViewport == InitViewport /\ [][NextViewport]_vars

NextFramebuffer ==
    \/ \E t \in Targets : BinderFramebuffer_new(t)
    \/ \E t \in Targets, fb \in Framebuffers : BinderFramebuffer_bind(t, fb)
    \/ \E i \in 1..MaxGuards, fb \in Framebuffers : BinderFramebuffer_rebind(i, fb)
    \/ \E i \in 1..MaxGuards : BinderFramebuffer_drop(i)

InitFramebuffer == VpIdle /\ FbInit /\ EnIdle /\ DvaIdle /\ ObjIdle /\ MoreIdle

SpecFramebuffer == InitFramebuffer /\ [][NextFramebuffer]_vars

NextEnabler ==
    \/ \E id \in Slots : Enabler_enable(id)
    \/ \E i \in 1..MaxGuards : Enabler_drop(i)

InitEnabler == VpIdle /\ FbIdle /\ EnInit /\ DvaIdle /\ ObjIdle /\ MoreIdle

SpecEnabler == InitEnabler /\ [][NextEnabler]_vars

NextDva ==
    \/ \E d \in RecSeqs : Dva_set(d)
    \/ \E i \in 0..(MaxLen - 1) : Dva_index(i)
    \/ \E i \in 0..MaxLen, v \in Vals : Dva_index_mut(i, v)
    \/ Dva_bind_buffer
    \/ Dva_draw
    \/ \E a \in 0..MaxLen, b \in 0..MaxLen : Dva_draw_sub(a, b)

InitDva == VpIdle /\ FbIdle /\ EnIdle /\ DvaInit /\ ObjIdle /\ MoreIdle

SpecDva == InitDva /\ [][NextDva]_vars

NextObj ==
    \/ \E w \in WrapperIds, k \in GenKinds, id \in Handles : Wrapper_generate(w, k, id)
    \/ \E k \in GenKinds : Wrapper_generate_err(k)
    \/ \E w \in WrapperIds : Wrapper_drop(w)
    \/ \E w \in WrapperIds : Texture_into_id(w)
    \/ \E w \in WrapperIds, inp \in FsInputs(0), id \in Handles :
           Program_from_source(w, inp, id)

\* One from_source, whose program has up to MaxActive active uniforms and
\* attributes.
NextReflect ==
    /\ fsRet = "none"
    /\ \E inp \in FsInputs(MaxActive) : Program_from_source(1, inp, 1)

InitReflect == VpIdle /\ FbIdle /\ EnIdle /\ DvaIdle /\ ObjInit /\ MoreIdle

SpecReflect == InitReflect /\ [][NextReflect]_vars

\* A lookup that returns the first entry, whatever its name.
Program_by_name_any(cat, name) == IF cat = <<>> THEN <<>> ELSE << cat[1] >>

\* self.uniforms.iter().find(|u| u.name == name), and the same over attribs:
\* <<>> for None.
Program_by_name(cat, name) ==
    LET idx == {i \in DOMAIN cat : cat[i].name = name}
    IN  IF idx = {} THEN <<>> ELSE << cat[CHOOSE i \in idx : \A j \in idx : i <= j] >>

\* Program::uniform_by_name(name)
Program_uniform_by_name(name) ==
    /\ lookup' = [op |-> "uniform_by_name", name |-> name,
                  ret |-> Program_by_name(fsProg.uniforms, name)]
    /\ UNCHANGED <<wrappers, glLive, delCnt, fsCalls, fsRet, fsIn, fsProg,
                   vpVars, fbVars, enVars, dvaVars, moreVars>>

\* Program::attrib_by_name(name)
Program_attrib_by_name(name) ==
    /\ lookup' = [op |-> "attrib_by_name", name |-> name,
                  ret |-> Program_by_name(fsProg.attribs, name)]
    /\ UNCHANGED <<wrappers, glLive, delCnt, fsCalls, fsRet, fsIn, fsProg,
                   vpVars, fbVars, enVars, dvaVars, moreVars>>

\* The names looked up: those the driver reports and some it does not.
LookupNames ==
    {ActiveName(k, i) : k \in {"u", "a"}, i \in 1..MaxCatalog} \cup {"u", "a", "U1", "u1 "}

\* A structure whose field is the program's first uniform.
LookupUniforms == << [name |-> ActiveName("u", 1), arr |-> FALSE, val |-> 1] >>

\* One from_source that links, then lookups and draws with its Program in
\* any order.
NextProgram ==
    \/ /\ fsRet = "none"
       /\ \E inp \in FsInputs(MaxCatalog) : inp.g = "absent" /\ Program_from_source(1, inp, 1)
    \/ /\ fsRet = "ok"
       /\ \E name \in LookupNames : Program_uniform_by_name(name)
    \/ /\ fsRet = "ok"
       /\ \E name \in LookupNames : Program_attrib_by_name(name)
    \/ /\ fsRet = "ok"
       /\ \E n \in 0..1 :
             Program_draw([id |-> 1, uniforms |-> fsProg.uniforms, attribs |-> fsProg.attribs],
                          LookupUniforms, NilSrc(n), NO_ERROR)

InitProgram == VpIdle /\ FbIdle /\ EnIdle /\ DvaIdle /\ ObjInit /\ MoreIdle

SpecProgram == InitProgram /\ [][NextProgram]_vars

InitObj == VpIdle /\ FbIdle /\ EnIdle /\ DvaIdle /\ ObjInit /\ MoreIdle

SpecObj == InitObj /\ [][NextObj]_vars

\* The states a draw finds the array in: from_data(d); then bind_buffer() and
\* set(d'); then bind_buffer() again.  The records all hold the value 0.
ZeroRecs(n) == [i \in 1..n |-> 0]
Array_from_data(d, ab) ==
    [data |-> d, gpu |-> <<>>, buf_len |-> 0, dirty |-> TRUE, arrayBuffer |-> ab]
Array_set(a, d) == [a EXCEPT !.data = d, !.dirty = TRUE]
DrawArrays ==
    LET fresh == {Array_from_data(ZeroRecs(n), ab) : n \in 0..MaxLen, ab \in {0, OtherBufId}}
        again == {Array_set(Array_after(a, bind_buffer_of(a)), ZeroRecs(n)) :
                     a \in fresh, n \in 0..MaxLen}
    IN  fresh \cup again \cup {Array_after(a, bind_buffer_of(a)) : a \in again}

\* A behaviour is one draw, from any state of the array and of the error
\* flag: a later draw finds them in one of these states again.
NextDraw ==
    /\ drRet = "none"
    /\ \E p \in DrawPrograms, prov \in UniformProviders, src \in DrawSources,
          e \in {NO_ERROR} \cup GlErrors : Program_draw(p, prov, src, e)

InitDraw ==
    /\ VpIdle /\ FbIdle /\ EnIdle /\ ObjIdle
    /\ \E a \in DrawArrays :
          /\ data = a.data /\ gpu = a.gpu /\ buf_len = a.buf_len
          /\ dirty = a.dirty /\ arrayBuffer = a.arrayBuffer
          /\ maxUp = a.buf_len
    /\ ev = [op |-> "new", dirty0 |-> TRUE, len0 |-> 0, buf0 |-> 0,
             alloc0 |-> 0, up |-> "none", bytes |-> 0, off |-> 0, i |-> 0, v |-> 0]
    /\ hist = <<>>
    /\ glErr \in {NO_ERROR} \cup GlErrors
    /\ curProgram = 0 /\ drIn = NoDraw /\ drCalls = <<>> /\ drRet = "none"
    /\ msIn = [accepts |-> {}, e |-> NO_ERROR, flag0 |-> NO_ERROR] /\ msCalls = <<>> /\ msRet = 0
    /\ rbBound = 0 /\ rbGuards = <<>> /\ rbEv = RbNoEv
    /\ CbInit
    /\ CtxInit

SpecDraw == InitDraw /\ [][NextDraw]_vars

\* Sequences without repetition, up to n long, over the set S.
RECURSIVE DistinctSeqs(_, _)
DistinctSeqs(S, n) ==
    IF n = 0 THEN {<<>>}
    ELSE LET shorter == DistinctSeqs(S, n - 1)
         IN  shorter \cup {Append(pr[1], pr[2]) :
                            pr \in {c \in shorter \X S : \A i \in DOMAIN c[1] : c[1][i] # c[2]}}

\* The uniform names a driver reports (an array goes by its first element),
\* each at a location of its own.
UniformNames == {"a", "a[0]", "ab", "b", "c[0]"}
UniformLocationOf(name) ==
    CASE name = "a" -> 3 [] name = "a[0]" -> 1 [] name = "ab" -> 4
      [] name = "b" -> 0 [] name = "c[0]" -> 2
UniformCatalogs ==
    {[i \in DOMAIN q |-> UniformEntry(q[i], UniformLocationOf(q[i]))] :
        q \in DistinctSeqs(UniformNames, MaxUniforms)}

\* The structures uniform! is given: fields a: f32, a: [f32; 2], b: i32,
\* c: [i32; 2] in any order, a name declared once.
UniformFieldPool ==
    { [name |-> "a", arr |-> FALSE, val |-> 1], [name |-> "a", arr |-> TRUE, val |-> 2],
      [name |-> "b", arr |-> FALSE, val |-> 3], [name |-> "c", arr |-> TRUE, val |-> 4] }
UniformStructs ==
    {q \in DistinctSeqs(UniformFieldPool, MaxFields) :
        \A i, j \in DOMAIN q : i # j => q[i].name # q[j].name}

\* One draw of a program with one of the catalogs, the uniforms from one of
\* the structures, over NilVertexAttrib(n).
NextUniform ==
    /\ drRet = "none"
    /\ \E us \in UniformCatalogs, prov \in UniformStructs, n \in 0..1,
          e \in {NO_ERROR} \cup GlErrors :
          Program_draw([id |-> 1, uniforms |-> us, attribs |-> <<>>], prov, NilSrc(n), e)

InitUniform == VpIdle /\ FbIdle /\ EnIdle /\ DvaIdle /\ ObjIdle /\ MoreIdle

SpecUniform == InitUniform /\ [][NextUniform]_vars

\* The attribute names a driver reports, each at a location of its own.
AttribNames == {"pos", "col", "nrm"}
AttribLocationOf(name) == CASE name = "pos" -> 1 [] name = "col" -> 0 [] name = "nrm" -> 2
AttribCatalogs ==
    {[i \in DOMAIN q |-> AttribEntry(q[i], AttribLocationOf(q[i]))] :
        q \in DistinctSeqs(AttribNames, MaxAttribs)}

\* attrib!{ struct Vertex { .. } } with the fields pos: f32 and col: u32
\* declared in either order and laid out in either order.
RecordStructs ==
    LET pos(o) == [name |-> "pos", n |-> 1, t |-> "FLOAT", offs |-> o]
        col(o) == [name |-> "col", n |-> 1, t |-> "UNSIGNED_INT", offs |-> o]
    IN  UNION {{ <<pos(o), col(1 - o)>>, <<col(1 - o), pos(o)>> } : o \in 0..1}

\* One draw of a program with one of the attribute catalogs over an array of
\* one of the record structures.
NextAttrib ==
    /\ drRet = "none"
    /\ \E cat \in AttribCatalogs, f \in RecordStructs, e \in {NO_ERROR} \cup GlErrors :
          Program_draw([id |-> 1, uniforms |-> <<>>, attribs |-> cat], <<>>, DvaSrcOf(f), e)

InitAttrib == InitDraw

SpecAttrib == InitAttrib /\ [][NextAttrib]_vars

\* The members of the pairs drawn with, and the pairs (A0, A1) of them.
PairMembers ==
    {NilSrc(n) : n \in 0..MaxLen} \cup {DvaSrc, SubSrc(0, 0), SubSrc(1, 2)}
PairSources == {PairSrc(s0, s1) : s0 \in PairMembers, s1 \in PairMembers}

\* One draw over a pair, of a program with the record's two attributes.
NextPair ==
    /\ drRet = "none"
    /\ \E src \in PairSources, e \in {NO_ERROR} \cup GlErrors :
          Program_draw([id |-> 1, uniforms |-> <<>>,
                        attribs |-> <<AttribEntry("pos", 0), AttribEntry("col", 1)>>],
                       <<>>, src, e)

InitPair == InitDraw

SpecPair == InitPair /\ [][NextPair]_vars

NextMultisample ==
    \/ \E accepts \in SUBSET {all_samples[i] : i \in 1..Len(all_samples)}, e \in GlErrors :
           try_renderbuffer_storage_multisample(accepts, e)
    \/ \E e \in GlErrors : Gl_call_fails(e)

InitMultisample == VpIdle /\ FbIdle /\ EnIdle /\ DvaIdle /\ ObjIdle /\ MoreIdle

SpecMultisample == InitMultisample /\ [][NextMultisample]_vars

NextRenderbuffer ==
    \/ \E rb \in Renderbuffers : BinderRenderbuffer_bind(rb)
    \/ \E i \in 1..MaxGuards, rb \in Renderbuffers : BinderRenderbuffer_rebind(i, rb)
    \/ \E i \in 1..MaxGuards : BinderRenderbuffer_drop(i)

\* Any renderbuffer, or none, is bound before the first binder is made.
InitRenderbuffer ==
    /\ VpIdle /\ FbIdle /\ EnIdle /\ DvaIdle /\ ObjIdle
    /\ glErr = NO_ERROR
    /\ curProgram = 0 /\ drIn = NoDraw /\ drCalls = <<>> /\ drRet = "none"
    /\ msIn = [accepts |-> {}, e |-> NO_ERROR, flag0 |-> NO_ERROR] /\ msCalls = <<>> /\ msRet = 0
    /\ rbBound \in 0..NRenderbuffers /\ rbGuards = <<>> /\ rbEv = RbNoEv
    /\ CbInit
    /\ CtxInit

SpecRenderbuffer == InitRenderbuffer /\ [][NextRenderbuffer]_vars

\* Context::do_frame up to the call of do_ui: a new Ui with an empty registry,
\* which io.BackendLanguageUserData points at.
Context_do_frame ==
    /\ ~uiLive
    /\ cbEv.op # "abort"
    /\ frameNo < MaxFrames
    /\ callbacks' = <<>>
    /\ uiLive' = TRUE
    /\ frameNo' = frameNo + 1
    /\ cbEv' = [CbNoEv EXCEPT !.op = "do_frame", !.frame = frameNo + 1]
    /\ UNCHANGED <<tokens, invoked, fired>>
    /\ UNCHANGED <<vpVars, fbVars, enVars, dvaVars, objVars, glErr, drwVars, msVars, rbVars, ctxVars>>

\* Context::do_frame from the return of do_render: the pointer is nulled and
\* the Ui is dropped, its closures with it.
Context_do_frame_return ==
    /\ uiLive
    /\ cbEv.op # "abort"
    /\ callbacks' = <<>>
    /\ uiLive' = FALSE
    /\ cbEv' = [CbNoEv EXCEPT !.op = "return", !.frame = frameNo]
    /\ UNCHANGED <<frameNo, tokens, invoked, fired>>
    /\ UNCHANGED <<vpVars, fbVars, enVars, dvaVars, objVars, glErr, drwVars, msVars, rbVars, ctxVars>>

\* Ui::push_callback(cb): the token is the registry's length, cb goes last.
push_callback(cbs, cb) == [id |-> Len(cbs), callbacks |-> Append(cbs, cb)]

\* A registration of the user closure cl, boxed as cb, whose token goes to
\* the native library.
Register(cb) ==
    LET r == push_callback(callbacks, cb)
    IN  /\ uiLive
        /\ cbEv.op # "abort"
        /\ callbacks' = r.callbacks
        /\ tokens' = tokens \cup {[frame |-> frameNo, id |-> r.id, cl |-> cb.cl,
                                   kind |-> cb.kind]}
        /\ cbEv' = [CbNoEv EXCEPT !.op = cb.kind, !.id = r.id, !.frame = frameNo, !.cl = cb.cl]
        /\ UNCHANGED <<uiLive, frameNo, invoked, fired>>
        /\ UNCHANGED <<vpVars, fbVars, enVars, dvaVars, objVars, glErr, drwVars, msVars, rbVars, ctxVars>>

\* WindowDrawList::add_callback(cb): the FnOnce goes into an Option that the
\* registered FnMut takes it out of (some: it is still in).
WindowDrawList_add_callback(cl) ==
    Register([kind |-> "add_callback", cl |-> cl, some |-> TRUE])

\* Ui::set_next_window_size_constraints_callback(.., cb): the FnMut itself is
\* registered.
Ui_set_next_window_size_constraints_callback(cl) ==
    Register([kind |-> "size_callback", cl |-> cl, some |-> TRUE])

\* A registered closure that runs the user closure at every call.
Boxed_call_again(cb) == [cb |-> cb, ran |-> cb.cl]

\* One call of the boxed closure cb: the closure it leaves in the registry,
\* and the user closure that ran (0: none).
Boxed_call(cb) ==
    IF cb.kind = "add_callback"
    THEN IF cb.some THEN [cb |-> [cb EXCEPT !.some = FALSE], ran |-> cb.cl]
         ELSE [cb |-> cb, ran |-> 0]
    ELSE [cb |-> cb, ran |-> cb.cl]

\* call_drawlist_callback / call_size_callback, fired by the native library
\* with the token tok while a frame's Ui is registered:
\* run_callback(id, a) indexes the registry of that Ui, and an index past its
\* end panics in the extern "C" function, which aborts.
Ui_run_callback(tok) ==
    /\ uiLive
    /\ cbEv.op # "abort"
    /\ tok \in tokens
    /\ tok.frame = frameNo => fired[tok.cl] < MaxFires
    /\ IF tok.id >= Len(callbacks)
       THEN /\ cbEv' = [CbNoEv EXCEPT !.op = "abort", !.id = tok.id, !.frame = tok.frame,
                                      !.cl = tok.cl]
            /\ UNCHANGED <<callbacks, invoked, fired>>
       ELSE LET r == Boxed_call(callbacks[tok.id + 1])
            IN  /\ r.ran # 0 => invoked[r.ran] < MaxFires
                /\ callbacks' = [callbacks EXCEPT ![tok.id + 1] = r.cb]
                /\ invoked' = IF r.ran # 0 THEN [invoked EXCEPT ![r.ran] = @ + 1] ELSE invoked
                /\ fired' = IF tok.frame = frameNo THEN [fired EXCEPT ![tok.cl] = @ + 1]
                            ELSE fired
                /\ cbEv' = [op |-> "run_callback", id |-> tok.id, frame |-> tok.frame,
                            cl |-> tok.cl, ran |-> r.ran]
    /\ UNCHANGED <<uiLive, frameNo, tokens>>
    /\ UNCHANGED <<vpVars, fbVars, enVars, dvaVars, objVars, glErr, drwVars, msVars, rbVars, ctxVars>>

\* The closure registered next.
NewClosure == Cardinality(tokens) + 1

NextCallbacks ==
    \/ Context_do_frame
    \/ Context_do_frame_return
    \/ NewClosure \in Closures /\ WindowDrawList_add_callback(NewClosure)
    \/ NewClosure \in Closures /\ Ui_set_next_window_size_constraints_callback(NewClosure)
    \/ \E tok \in tokens : Ui_run_callback(tok)

InitCallbacks == VpIdle /\ FbIdle /\ EnIdle /\ DvaIdle /\ ObjIdle /\ MoreIdle

SpecCallbacks == InitCallbacks /\ [][NextCallbacks]_vars

\* ------------------------------------------------- Context: fonts and atlas
\* The font list is cut off at this length.
MaxFonts == 3

\* The font files at hand.
NFontFiles == 2

\* The framebuffer scales set_size is called with.
MaxScale == 2

\* The display sizes set_size is called with.
DisplaySizes == {<<1, 1>>, <<2, 1>>}

\* FontInfo::new: one placeholder range, not merged, id 0.
FontInfo_new(ttf, size) ==
    [ttf |-> ttf, size |-> size, char_ranges |-> <<<<0, 0>>>>, merge |-> FALSE, id |-> 0]

\* FontInfo::char_range: the placeholder becomes the range and a new
\* placeholder follows it.
FontInfo_char_range(font, from, to) ==
    [font EXCEPT !.char_ranges =
        Append([k \in 1..Len(@) |-> IF k = Len(@) THEN <<from, to>> ELSE @[k]], <<0, 0>>)]

\* The fonts handed to add_font and merge_font: file f at size f, the even
\* files with a character range.
FontInfos ==
    {IF f % 2 = 0 THEN FontInfo_char_range(FontInfo_new(f, f), 32, 127) ELSE FontInfo_new(f, f)
        : f \in 1..NFontFiles}

\* std::mem::take on a bool: the old value is returned, false is left.
mem_take_keeps(b) == [ret |-> b, left |-> b]
mem_take(b) == [ret |-> b, left |-> FALSE]

\* The id add_font gives: 0 on an empty list, else one past the last id.
NextFontId_len(fs) == Len(fs)
NextFontId(fs) == IF fs = <<>> THEN 0 ELSE fs[Len(fs)].id + 1

\* What update_atlas hands ImFontAtlas_AddFontFromMemoryTTF for one font.
AtlasEntry(font, scale) ==
    [ttf |-> font.ttf,
     size_pixels |-> font.size * scale,
     MergeMode |-> font.merge,
     FontDataOwnedByAtlas |-> FALSE,
     glyph_ranges |-> IF Len(font.char_ranges) > 1 THEN font.char_ranges[1] ELSE <<>>]

\* Context::set_size.
Context_set_size(size, scale) ==
    /\ pending_atlas' = TRUE
    /\ io' = [DisplaySize |-> size, DisplayFramebufferScale |-> scale,
              FontGlobalScale |-> <<1, scale>>]
    /\ ctxEv' = [op |-> "set_size", ret |-> "ok", font |-> 0, tick |-> 1 - ctxEv.tick]
    /\ sinceUpdate' = sinceUpdate \cup {"set_size"}
    /\ UNCHANGED <<fonts, atlas, addCalls>>
    /\ UNCHANGED <<vpVars, fbVars, enVars, dvaVars, objVars, glErr, drwVars, msVars, rbVars, cbVars>>

\* Context::add_font.
Context_add_font(font) ==
    /\ Len(fonts) < MaxFonts
    /\ pending_atlas' = TRUE
    /\ LET id == NextFontId(fonts)
       IN  /\ fonts' = Append(fonts, [font EXCEPT !.id = id])
           /\ ctxEv' = [op |-> "add_font", ret |-> "ok", font |-> id, tick |-> 1 - ctxEv.tick]
    /\ sinceUpdate' = sinceUpdate \cup {"add_font"}
    /\ addCalls' = addCalls + 1
    /\ UNCHANGED <<io, atlas>>
    /\ UNCHANGED <<vpVars, fbVars, enVars, dvaVars, objVars, glErr, drwVars, msVars, rbVars, cbVars>>

\* Context::merge_font: the flag is set before the list is looked at, and
\* expect panics on an empty list.
Context_merge_font(font) ==
    /\ Len(fonts) < MaxFonts
    /\ pending_atlas' = TRUE
    /\ IF fonts = <<>>
       THEN /\ fonts' = fonts
            /\ ctxEv' = [op |-> "merge_font", ret |-> "panic", font |-> 0, tick |-> 1 - ctxEv.tick]
       ELSE /\ fonts' = Append(fonts, [font EXCEPT !.merge = TRUE, !.id = fonts[Len(fonts)].id])
            /\ ctxEv' = [op |-> "merge_font", ret |-> "ok", font |-> fonts[Len(fonts)].id, tick |-> 1 - ctxEv.tick]
    /\ sinceUpdate' = sinceUpdate \cup {"merge_font"}
    /\ UNCHANGED <<io, atlas, addCalls>>
    /\ UNCHANGED <<vpVars, fbVars, enVars, dvaVars, objVars, glErr, drwVars, msVars, rbVars, cbVars>>

\* Context::update_atlas: nothing when the flag was clear, else the atlas is
\* cleared and given every font of the list, in order.
Context_update_atlas ==
    /\ LET t == mem_take(pending_atlas)
       IN  /\ pending_atlas' = t.left
           /\ IF ~t.ret
              THEN /\ atlas' = atlas
                   /\ ctxEv' = [op |-> "update_atlas", ret |-> "false", font |-> 0, tick |-> 1 - ctxEv.tick]
              ELSE /\ atlas' = [k \in 1..Len(fonts) |->
                                    AtlasEntry(fonts[k], io.DisplayFramebufferScale)]
                   /\ ctxEv' = [op |-> "update_atlas", ret |-> "true", font |-> 0, tick |-> 1 - ctxEv.tick]
    /\ sinceUpdate' = {}
    /\ UNCHANGED <<fonts, io, addCalls>>
    /\ UNCHANGED <<vpVars, fbVars, enVars, dvaVars, objVars, glErr, drwVars, msVars, rbVars, cbVars>>

NextContext ==
    \/ \E size \in DisplaySizes, scale \in 1..MaxScale : Context_set_size(size, scale)
    \/ \E font \in FontInfos : Context_add_font(font)
    \/ \E font \in FontInfos : Context_merge_font(font)
    \/ Context_update_atlas

\* The context as Context::new leaves it.
InitContext == VpIdle /\ FbIdle /\ EnIdle /\ DvaIdle /\ ObjIdle /\ MoreIdle

SpecContext == InitContext /\ [][NextContext]_vars

\* ================================================================ claims

\* The positions of fsCalls that name shader object n.
ShaderCallNames ==
    {"create_shader", "shader_source", "compile_shader", "get_shader_compile_status",
     "get_shader_info_log", "attach_shader", "delete_shader"}
ShaderUses(n) == {k \in 1..Len(fsCalls) : fsCalls[k][1] \in ShaderCallNames /\ fsCalls[k][2] = n}
ShaderDeletes(n) == {k \in ShaderUses(n) : fsCalls[k][1] = "delete_shader"}
\* The positions of fsCalls that name the program object (name 0: none made).
ProgramCallNames ==
    {"create_program", "link_program", "get_program_link_status", "get_program_info_log",
     "get_active_uniforms", "get_active_attributes", "delete_program"}
ProgramUses == {k \in 1..Len(fsCalls) : fsCalls[k][1] \in ProgramCallNames /\ fsCalls[k][2] # 0}
ProgramDeletes == {k \in ProgramUses : fsCalls[k][1] = "delete_program"}

\* C1: the handle of every wrapper that was created and never escaped is
\* deleted exactly once, when the wrapper is destroyed: a live wrapper's
\* handle has seen no delete and is still a live driver object, a destroyed
\* wrapper's handle has seen exactly one; every Shader made inside
\* from_source is destroyed by the time it returns, with one delete that is
\* the last call naming it, and so is the Program of a from_source that
\* fails, while the Program that is returned has seen none.
C1_DeletedOnceAtDrop ==
    /\ \A w \in WrapperIds :
        /\ wrappers[w].st = "alive" =>
              delCnt[w] = 0 /\ <<wrappers[w].kind, wrappers[w].id>> \in glLive
        /\ wrappers[w].st = "dropped" => delCnt[w] = 1
    /\ \A n \in {VshId, FshId, GshId} :
          ShaderUses(n) # {} =>
              /\ Cardinality(ShaderDeletes(n)) = 1
              /\ \A k \in ShaderUses(n), d \in ShaderDeletes(n) : k <= d
    /\ ProgramUses # {} =>
          IF fsRet = "ok"
          THEN ProgramDeletes = {}
          ELSE /\ Cardinality(ProgramDeletes) = 1
               /\ \A k \in ProgramUses, d \in ProgramDeletes : k <= d

\* C1 witness: a wrapper made by generate has been destroyed, and a
\* from_source that failed at the link destroyed its Program and its stages.
C1_Witness ==
    /\ \E w \in WrapperIds : wrappers[w].st = "dropped" /\ delCnt[w] = 1
    /\ fsRet = "err"
    /\ ProgramDeletes # {}
    /\ ShaderDeletes(GshId) # {}

\* C2: destroying a PushViewport leaves the viewport equal to the rectangle
\* that was in effect immediately before that guard was constructed, whatever
\* was set in between and whatever other guards are alive.
C2_DropRestoresViewport == vpEv.op = "drop" => viewport = vpEv.before

\* C2 witness: an inner guard was destroyed while an outer guard, made when
\* another rectangle was in effect, is still alive.
C2_Witness ==
    /\ vpEv.op = "drop"
    /\ Len(vpGuards) = 1
    /\ vpGuards[1].before # viewport

\* C3: destroying a BinderFramebuffer, built by new or by bind, leaves its
\* target bound to the framebuffer bound to that target immediately before
\* the binder was constructed.
C3_DropRestoresBinding == fbEv.op = "drop" => fbBound[fbEv.tgt] = fbEv.before

\* C4: whenever the dirty flag is false the contents of the GPU buffer equal
\* the contents of the local record sequence.
C4_CleanMeansEqual == ~dirty => gpu = as_u8_slice(data)

\* C4 as amended: whenever the dirty flag is false the GPU buffer starts with
\* the local records; it may be longer, a sub-range upload keeps the store.
C4_CleanMeansPrefix ==
    ~dirty =>
        /\ Len(gpu) >= Len(as_u8_slice(data))
        /\ SubSeq(gpu, 1, Len(as_u8_slice(data))) = as_u8_slice(data)

\* C4 witness: a clean array whose buffer is longer than its local sequence.
C4_Witness == ~dirty /\ Len(gpu) > Len(as_u8_slice(data))

\* C5: bind_buffer on a dirty array: a local count no larger than the
\* recorded size gives a sub-range upload at offset 0 that keeps the store
\* and the recorded size; a larger one gives a full upload and records it.
C5_UploadByComparison ==
    (ev.op = "bind_buffer" /\ ev.dirty0) =>
        IF ev.len0 <= ev.buf0
        THEN ev.up = "sub" /\ ev.off = 0 /\ Len(gpu) = ev.alloc0 /\ buf_len = ev.buf0
        ELSE ev.up = "full" /\ buf_len = ev.len0

\* C5 as amended: the same for a non-empty local sequence; with the empty
\* one bind_buffer returns at once: no upload, nothing changed.
C5_UploadByComparisonNonEmpty ==
    (ev.op = "bind_buffer" /\ ev.dirty0) =>
        IF ev.len0 = 0
        THEN ev.up = "none" /\ Len(gpu) = ev.alloc0 /\ buf_len = ev.buf0
        ELSE IF ev.len0 <= ev.buf0
        THEN /\ ev.up = "sub" /\ ev.off = 0 /\ ev.bytes = ev.len0 * RecSize
             /\ Len(gpu) = ev.alloc0 /\ buf_len = ev.buf0
        ELSE /\ ev.up = "full" /\ ev.bytes = ev.len0 * RecSize
             /\ Len(gpu) = ev.bytes /\ buf_len = ev.len0

\* C5 witness: a dirty array shorter than the recorded size was bound and
\* got a sub-range upload.
C5_Witness ==
    /\ ev.op = "bind_buffer" /\ ev.dirty0
    /\ ev.len0 > 0 /\ ev.len0 < ev.buf0
    /\ ev.up = "sub"

\* The four calls of a run set(S); bind_buffer(); set(S'); bind_buffer().
H_lenS == hist[1][3]
H_up1 == hist[2][3]
H_max1 == hist[2][4]
H_lenS2 == hist[3][3]
H_kind2 == hist[4][2]
H_up2 == hist[4][3]

\* C6: after any history, set(S); bind_buffer() uploads len(S) records, and
\* a following set(S'); bind_buffer() does not reallocate when
\* len(S') <= len(S) and reallocates when len(S') > len(S).
C6_ReallocByLastSet ==
    Len(hist) = 4 =>
        /\ H_up1 = H_lenS
        /\ H_lenS2 <= H_lenS => H_kind2 # "full"
        /\ H_lenS2 > H_lenS => H_kind2 = "full"

\* C6 as amended: set(S); bind_buffer() uploads len(S) records, and the
\* following set(S'); bind_buffer() uploads len(S') records, reallocating
\* exactly when len(S') exceeds the largest count uploaded so far, which is
\* at least len(S); so len(S') <= len(S) never reallocates.
C6_ReallocByLargestUpload ==
    Len(hist) = 4 =>
        /\ H_up1 = H_lenS
        /\ H_up2 = H_lenS2
        /\ H_max1 >= H_lenS
        /\ H_kind2 = "full" <=> H_lenS2 > H_max1
        /\ H_lenS2 <= H_lenS => H_kind2 # "full"

\* C6 witness: S' is longer than S and still fits an earlier, larger upload.
C6_Witness ==
    /\ Len(hist) = 4
    /\ H_lenS2 > H_lenS
    /\ H_kind2 = "sub"

\* C7: every bind_buffer on a dirty array, the empty one included, returns
\* with the dirty flag false.
C7_BindClearsDirty == (ev.op = "bind_buffer" /\ ev.dirty0) => ~dirty

\* C7 as amended: bind_buffer on a dirty array returns with the flag false
\* after either upload, and with the flag still true, no upload issued, when
\* the local sequence is empty.
C7_BindClearsDirtyNonEmpty ==
    (ev.op = "bind_buffer" /\ ev.dirty0) =>
        /\ ev.len0 > 0 => ~dirty /\ ev.up \in {"sub", "full"}
        /\ ev.len0 = 0 => dirty /\ ev.up = "none"

\* C7 witness: a bind_buffer on a dirty array took the sub-range path and
\* left the flag false.
C7_Witness == ev.op = "bind_buffer" /\ ev.dirty0 /\ ev.up = "sub" /\ ~dirty

\* C8: after an indexed write of v at a valid index i, reading index i
\* returns v; an indexed write and a set leave the flag true; and a flag that
\* was true stays true over every operation that is no bind_buffer.
C8_WriteReadDirty ==
    /\ ev.op = "index_mut" => Dva_index_value(ev.i) = ev.v /\ dirty
    /\ ev.op \in {"set", "index_mut_panic"} => dirty
    /\ (ev.op \in {"set", "index", "index_mut", "index_mut_panic"} /\ ev.dirty0) => dirty

\* C8 witness: an indexed write on a clean array, at the last index.
C8_Witness ==
    /\ ev.op = "index_mut" /\ ~ev.dirty0
    /\ ev.i = Len(data) - 1 /\ ev.i > 0
    /\ dirty

\* C9: a bind_buffer that finds the flag false issues no upload and leaves
\* the local sequence, the buffer's store, the recorded size and the flag as
\* they were.
C9_CleanBindIsNoUpload ==
    [][(ev'.op = "bind_buffer" /\ ~dirty) =>
          /\ ev'.up = "none" /\ ev'.bytes = 0
          /\ data' = data /\ gpu' = gpu /\ buf_len' = buf_len /\ dirty' = dirty]_vars

\* C9 witness: bind_buffer ran on a clean array and bound its buffer.
C9_Witness ==
    /\ ev.op = "bind_buffer" /\ ~ev.dirty0
    /\ ev.up = "none" /\ ~dirty /\ arrayBuffer = BufId

\* The live enabler guards that name slot s.
LiveGuardsOf(s) == {k \in 1..Len(enGuards) : enGuards[k].id = s}

\* C10: once every guard of a sequence destroyed in LIFO order is gone, each
\* slot that was enabled has been disabled exactly once and none is enabled.
C10_SlotDisabledOnce ==
    (enGuards = <<>> /\ enLifo) =>
        /\ \A s \in Slots : enCnt[s] > 0 => disCnt[s] = 1
        /\ slotOn = {}

\* C10 as amended: every guard disables its own slot exactly once, when it
\* is destroyed, so a slot named by k guards has been disabled k times; once
\* every guard is gone no slot is enabled.
C10_GuardDisablesOnce ==
    /\ \A s \in Slots : disCnt[s] = enCnt[s] - Cardinality(LiveGuardsOf(s))
    /\ enGuards = <<>> => slotOn = {}

\* C10 witness: two guards naming the same slot were destroyed in LIFO order.
C10_Witness ==
    /\ enGuards = <<>> /\ enLifo
    /\ \E s \in Slots : enCnt[s] = 2 /\ disCnt[s] = 2

\* ------------------------------------------------------------ Program::draw
\* The positions in drCalls of the calls named in names.
CallsAt(names) == {i \in 1..Len(drCalls) : drCalls[i][1] \in names}

\* C11: a draw whose attribute source list reports zero vertices issues no
\* driver call, writes nothing to the diagnostic channel, returns normally
\* and leaves the array, the error flag, the enabled slots and the current
\* program as they were.
C11_EmptyDrawIsNoop ==
    (drRet # "none" /\ drIn.len = 0) =>
        /\ drCalls = <<>>
        /\ drRet = "ok"
        /\ TheArray = drIn.array0
        /\ glErr = drIn.flag0
        /\ slotOn = drIn.slots0
        /\ curProgram = 0

\* C11 witness: a draw of an empty view of a dirty, non-empty array, with a
\* program that has a uniform and an attribute the arguments match, and an
\* error pending.
C11_Witness ==
    /\ drRet = "ok" /\ drIn.len = 0
    /\ drIn.src.kind = "sub"
    /\ Len(data) > 0 /\ dirty
    /\ Len(drIn.prog.uniforms) > 0 /\ Len(drIn.prog.attribs) > 0
    /\ glErr # NO_ERROR

\* The calls that bind the attribute streams.
BindCallNames ==
    {"bind_buffer", "buffer_data", "buffer_sub_data", "enable_vertex_attrib_array",
     "vertex_attrib_pointer_f32"}

\* Every call named in first comes before every call named in then.
Before(first, then) == \A i \in CallsAt(first), j \in CallsAt(then) : i < j

\* C12: every draw with a non-zero vertex count issues exactly one draw
\* call, for first vertex 0 and a count equal to the length the attribute
\* source list reports, and its calls come in the order: use_program, the
\* uniforms, the attribute streams, the draw call, the error check.
C12_OneDrawCallInOrder ==
    (drRet # "none" /\ drIn.len # 0) =>
        /\ Cardinality(CallsAt({"draw_arrays"})) = 1
        /\ \A i \in CallsAt({"draw_arrays"}) :
               drCalls[i] = Call("draw_arrays", TRIANGLES, 0, drIn.len, 0)
        /\ CallsAt({"use_program"}) = {1}
        /\ Cardinality(CallsAt({"get_error"})) = 1
        /\ Before({"use_program"}, {"uniform"})
        /\ Before({"uniform"}, BindCallNames)
        /\ Before(BindCallNames, {"draw_arrays"})
        /\ Before({"draw_arrays"}, {"get_error"})

\* The slots the last draw enabled while binding.
SlotsBound == {drCalls[i][2] : i \in CallsAt({"enable_vertex_attrib_array"})}

\* The slots enabled when call i of the last draw is issued.
SlotsAt(i) == SlotsAfter(SubSeq(drCalls, 1, i - 1), drIn.slots0)

\* C13: in every draw the slots enabled while binding are all enabled when
\* the draw call is issued (and a draw that enabled a slot does issue it),
\* no guard disables its slot before the draw call, and none of these slots
\* is enabled when draw has returned.
C13_SlotsLiveForDrawCall ==
    drRet # "none" =>
        /\ \A i \in CallsAt({"draw_arrays"}) : SlotsBound \subseteq SlotsAt(i)
        /\ SlotsBound # {} => CallsAt({"draw_arrays"}) # {}
        /\ Before({"draw_arrays"}, {"disable_vertex_attrib_array"})
        /\ SlotsBound \cap slotOn = {}

\* C13 witness: a draw that enabled two slots, issued the draw call and
\* returned.
C13_Witness ==
    /\ drRet = "ok"
    /\ Cardinality(SlotsBound) = 2
    /\ CallsAt({"draw_arrays"}) # {}
    /\ slotOn = {}

\* The slots named by the calls of the last draw called name, in call order.
SlotsOf(name) ==
    LET cs == SelectSeq(drCalls, LAMBDA c : c[1] = name)
    IN  [i \in 1..Len(cs) |-> cs[i][2]]

\* The last draw issued its draw call and the driver had an error recorded
\* when the check read the flag: one pending at entry, one raised by a call
\* of the draw, or the one a negative count raises.
DrawErrored ==
    /\ drRet # "none"
    /\ CallsAt({"draw_arrays"}) # {}
    /\ (drIn.flag0 # NO_ERROR \/ drIn.e # NO_ERROR \/ as_i32(drIn.len) < 0)

\* C14: when the driver reports an error after the draw call, draw writes it
\* to the diagnostic channel, once and right after the check, and returns
\* normally; the guards of the binding token disable their slots after that
\* as they do on the error-free path, and the error flag is left clear.  A
\* draw without an error writes nothing.
C14_DrawErrorIsLoggedOnly ==
    /\ DrawErrored =>
          /\ drRet = "ok"
          /\ Cardinality(CallsAt({"eprintln"})) = 1
          /\ \A i \in CallsAt({"eprintln"}) :
                /\ drCalls[i - 1][1] = "get_error"
                /\ drCalls[i][2] # NO_ERROR
                /\ drIn.flag0 # NO_ERROR => drCalls[i][2] = drIn.flag0
          /\ Before({"eprintln"}, {"disable_vertex_attrib_array"})
          /\ SlotsOf("disable_vertex_attrib_array") = SlotsOf("enable_vertex_attrib_array")
          /\ SlotsBound \cap slotOn = {}
          /\ glErr = NO_ERROR
    /\ (drRet # "none" /\ ~DrawErrored) => CallsAt({"eprintln"}) = {}

\* C14 witness: a draw that enabled a slot, had its draw call fail with no
\* error pending before, and returned.
C14_Witness ==
    /\ DrawErrored /\ drRet = "ok"
    /\ drIn.flag0 = NO_ERROR /\ drIn.e # NO_ERROR /\ drIn.len < BigCount
    /\ SlotsBound # {}
    /\ glErr = NO_ERROR

\* ---------------------------------------------------- Program::from_source
\* The last from_source met a failure: an object the driver did not create,
\* a stage that did not compile, a program that did not link.
FsFailed ==
    \E k \in 1..Len(fsCalls) :
        \/ fsCalls[k][1] \in {"create_shader", "create_program"} /\ fsCalls[k][2] = 0
        \/ fsCalls[k][1] \in {"get_shader_info_log", "get_program_info_log"}

\* The objects named by the calls of the last from_source called call.
FsCreated(call) == {fsCalls[k][2] : k \in {j \in 1..Len(fsCalls) : fsCalls[j][1] = call}} \ {0}

\* C15: a from_source that meets a failure (a stage that does not compile, a
\* shader or program object that is not created, a link that fails) returns
\* an error, and one that returns an error leaves no Program: every shader
\* object and the program object it created have been deleted, and no
\* wrapper holds the program.
C15_FailureLeavesNothing ==
    /\ FsFailed <=> fsRet = "err"
    /\ fsRet = "err" =>
          /\ FsCreated("create_shader") = FsCreated("delete_shader")
          /\ FsCreated("create_program") = FsCreated("delete_program")
          /\ \A pid \in FsCreated("create_program") :
                /\ <<"Program", pid>> \notin glLive
                /\ \A w \in WrapperIds :
                      ~(wrappers[w].st = "alive" /\ wrappers[w].kind = "Program"
                        /\ wrappers[w].id = pid)

\* C15 witness: a from_source with a geometry stage that failed at the link.
C15_Witness ==
    /\ fsRet = "err"
    /\ FsCreated("create_program") # {}
    /\ FsCreated("create_shader") = {VshId, FshId, GshId}

\* The positions of the calls of the last from_source called call.
FsCallsAt(call) == {k \in 1..Len(fsCalls) : fsCalls[k][1] = call}

\* C16: every stage from_source compiled, the geometry stage included, is
\* deleted exactly once by the time it returns, and when the program is
\* linked no stage's delete is issued before the link call.
C16_StagesOutliveLink ==
    /\ \A n \in FsCreated("create_shader") : Cardinality(ShaderDeletes(n)) = 1
    /\ \A l \in FsCallsAt("link_program"), d \in FsCallsAt("delete_shader") : l < d

\* ------------------------------------- try_renderbuffer_storage_multisample
\* The sample counts of the storage attempts of the last call, in order.
MsAttempts ==
    LET cs == SelectSeq(msCalls, LAMBDA c : c[1] = "renderbuffer_storage_multisample")
    IN  [i \in 1..Len(cs) |-> cs[i][2]]

\* The counts of all_samples the driver accepted in the last call.
MsAccepted == msIn.accepts \cap {all_samples[i] : i \in 1..Len(all_samples)}

\* C17: the function returns the largest of 16, 8, 4, 2 that the driver
\* accepts, which is the first accepted one in that order, returns None
\* exactly when the driver rejects all four, and makes at most four attempts.
C17_LargestAcceptedCount ==
    msCalls # <<>> =>
        /\ msRet = None <=> MsAccepted = {}
        /\ msRet # None =>
              /\ msRet \in MsAccepted
              /\ \A n \in MsAccepted : n <= msRet
              /\ \A i \in 1..(Len(MsAttempts) - 1) : MsAttempts[i] \notin MsAccepted
        /\ Len(MsAttempts) <= 4
        /\ MsAttempts = SubSeq(all_samples, 1, Len(MsAttempts))

\* C17 witness: a driver that rejects 16 and accepts 8 and 2 was asked twice
\* and 8 was returned.
C17_Witness ==
    /\ msCalls # <<>>
    /\ msIn.accepts = {8, 2}
    /\ msRet = 8
    /\ Len(MsAttempts) = 2

\* C18: every storage attempt comes right after a get_error that clears the
\* flag, so the result does not depend on an error pending at entry or left
\* by a rejected attempt; no attempt follows the first accepted one; a
\* driver that rejects 16 and 8 and accepts 4 sees three attempts, each
\* after its own clearing of the flag, and 4 is returned.
C18_ClearedBeforeEachAttempt ==
    msCalls # <<>> =>
        /\ \A k \in 1..Len(msCalls) :
              msCalls[k][1] = "renderbuffer_storage_multisample" =>
                  /\ k > 1 /\ msCalls[k - 1][1] = "get_error"
                  /\ k < Len(msCalls) /\ msCalls[k + 1][1] = "get_error"
        /\ Len(msCalls) = 3 * Len(MsAttempts)
        /\ \A i \in 1..Len(MsAttempts) :
              MsAttempts[i] \in MsAccepted <=> (i = Len(MsAttempts) /\ msRet # None)
        /\ (16 \notin msIn.accepts /\ 8 \notin msIn.accepts /\ 4 \in msIn.accepts) =>
              (msRet = 4 /\ MsAttempts = <<16, 8, 4>>)

\* C18 witness: with an error pending at entry, a driver that rejects 16 and
\* 8 and accepts 4 was asked three times and 4 was returned.
C18_Witness ==
    /\ msIn.flag0 # NO_ERROR
    /\ msIn.accepts = {4, 2}
    /\ msRet = 4
    /\ MsAttempts = <<16, 8, 4>>

\* ------------------------------------------------------ BinderRenderbuffer
\* C19: destroying a BinderRenderbuffer leaves the renderbuffer target bound
\* to none, whatever was bound before the binder was made and whatever was
\* rebound meanwhile.
C19_DropBindsNone == rbEv.op = "drop" => rbBound = None

\* C19 witness: a binder made while a renderbuffer was bound, and rebound
\* since, was destroyed while another binder is alive.
C19_Witness ==
    /\ rbEv.op = "drop" /\ rbEv.before # None /\ rbEv.rebound
    /\ Len(rbGuards) = 1
    /\ rbBound = None

\* ------------------------------------------------- DynamicVertexArray::sub
\* The calls of cs with a name in names, in order.
Named(cs, names) == SelectSeq(cs, LAMBDA c : c[1] \in names)

\* C20: a draw with the view sub(start..end) reports the length of the range
\* as its vertex count, binds and uploads the array's buffer as a bind of the
\* full array would from the same state, and enables the same slots; each
\* attribute pointer has the full array's component count and stride and an
\* offset of the field's offset plus the record size times start.
C20_SubViewBinding ==
    (drRet = "ok" /\ drIn.src.kind = "sub" /\ drIn.len # 0) =>
        LET full == Simple_bind(DvaSrc, drIn.prog, drIn.array0)
            buf == {"bind_buffer", "buffer_data", "buffer_sub_data"}
            ptr == {"vertex_attrib_pointer_f32"}
            en == {"enable_vertex_attrib_array"}
            mine == Named(drCalls, ptr)
            theirs == Named(full.calls, ptr)
        IN  /\ drIn.len = RangeLen(drIn.src.start, drIn.src.end)
            /\ Named(drCalls, buf) = Named(full.calls, buf)
            /\ TheArray = full.a
            /\ Named(drCalls, en) = Named(full.calls, en)
            /\ Len(mine) = Len(theirs)
            /\ \A i \in 1..Len(mine) :
                  mine[i] = Pointer(theirs[i][2], theirs[i][3], theirs[i][6],
                                    theirs[i][4], theirs[i][5] + RecSize * drIn.src.start)

\* The name uniform! matches a field under: an array by its first element.
MatchName(f) == IF f.arr THEN f.name \o "[0]" ELSE f.name

\* The fields of the last draw's structure that go by the name of entry u,
\* by position, and the first of them.
FieldsFor(u) == {j \in DOMAIN drIn.prov : MatchName(drIn.prov[j]) = u.name}
FirstFieldFor(u) == drIn.prov[CHOOSE j \in FieldsFor(u) : \A k \in FieldsFor(u) : j <= k]

\* The set-uniform calls of the last draw, in order, and those at a location.
SetCalls == Named(drCalls, {"uniform"})
SetCallsTo(location) == SelectSeq(SetCalls, LAMBDA c : c[2] = location)

ArrayEntries ==
    {i \in DOMAIN drIn.prog.uniforms :
        /\ FieldsFor(drIn.prog.uniforms[i]) # {}
        /\ FirstFieldFor(drIn.prog.uniforms[i]).arr}

Resolved(outs) == {i \in DOMAIN outs : outs[i] = "ok"}
KthResolved(outs, k) ==
    CHOOSE i \in Resolved(outs) : Cardinality({j \in Resolved(outs) : j <= i}) = k

\* The catalog cat holds the resolved entries of the enumeration outs of kind
\* kind, one each and in enumeration order.
CatalogOf(cat, outs, kind) ==
    /\ Len(cat) = Cardinality(Resolved(outs))
    /\ \A k \in DOMAIN cat :
          /\ cat[k].name = ActiveName(kind, KthResolved(outs, k))
          /\ cat[k].location = ActiveLocation(Len(outs), KthResolved(outs, k))

\* C23: once from_source has reached its reflection loops it returns Ok,
\* whatever the driver resolves; the uniform catalog of the Program returned
\* holds one entry, name and location, for each active uniform whose
\* description and location the driver gave, in enumeration order, and the
\* attribute catalog likewise.
C23_CatalogsFollowEnumeration ==
    /\ (\E i \in DOMAIN fsCalls : fsCalls[i][1] = "get_active_uniforms") => fsRet = "ok"
    /\ fsRet = "ok" =>
          /\ CatalogOf(fsProg.uniforms, fsIn.uniforms, "u")
          /\ CatalogOf(fsProg.attribs, fsIn.attribs, "a")

\* A from_source whose driver left the second of three uniforms without a
\* location and the first of three attributes without a description: each
\* catalog holds the other two.
C23_Witness ==
    /\ fsRet = "ok"
    /\ fsIn.uniforms = <<"ok", "noloc", "ok">>
    /\ fsIn.attribs = <<"nodesc", "ok", "ok">>
    /\ Len(fsProg.uniforms) = 2 /\ fsProg.uniforms[2].name = ActiveName("u", 3)
    /\ Len(fsProg.attribs) = 2 /\ fsProg.attribs[1].name = ActiveName("a", 2)

\* The record fields of the last draw's array that have the name of
\* attribute a.
RecordFieldsFor(a) == {j \in DOMAIN drIn.src.fields : drIn.src.fields[j].name = a.name}

\* The calls of the last draw that enable slot loc, and that point it.
EnablesOf(loc) ==
    {i \in DOMAIN drCalls : drCalls[i][1] = "enable_vertex_attrib_array" /\ drCalls[i][2] = loc}
PointersOf(loc) ==
    {i \in DOMAIN drCalls : drCalls[i][1] = "vertex_attrib_pointer_f32" /\ drCalls[i][2] = loc}

\* C24: in a draw of a non-empty array, whatever the order of the attribute
\* catalog and of the record's field declarations, an attribute that has the
\* name of a record field is enabled once at its own location and then
\* pointed once, with that field's component count, scalar type and offset in
\* the record and a stride of one record; an attribute that has the name of
\* no field is neither enabled nor pointed.
C24_AttribsBoundByName ==
    (drRet = "ok" /\ drIn.src.kind = "dva" /\ drIn.len # 0) =>
        \A i \in DOMAIN drIn.prog.attribs :
            LET a == drIn.prog.attribs[i]
            IN  IF RecordFieldsFor(a) = {}
                THEN EnablesOf(a.location) = {} /\ PointersOf(a.location) = {}
                ELSE /\ Cardinality(EnablesOf(a.location)) = 1
                     /\ Cardinality(PointersOf(a.location)) = 1
                     /\ \A en \in EnablesOf(a.location), pt \in PointersOf(a.location) :
                           /\ en < pt
                           /\ \E j \in RecordFieldsFor(a) :
                                 LET f == drIn.src.fields[j]
                                 IN  drCalls[pt] = << "vertex_attrib_pointer_f32", a.location,
                                                      f.n, RecSize, f.offs, f.t >>

\* A draw whose catalog lists nrm, col, pos over a record that declares pos
\* ahead of col and lays col out first: two pointers, col's ahead of pos's.
C24_Witness ==
    /\ drRet = "ok" /\ drIn.src.kind = "dva" /\ drIn.len # 0
    /\ Len(drIn.prog.attribs) = 3
    /\ drIn.prog.attribs[1].name = "nrm" /\ drIn.prog.attribs[2].name = "col"
    /\ drIn.src.fields[1].name = "pos" /\ drIn.src.fields[1].offs = 1
    /\ Cardinality(CallsAt({"vertex_attrib_pointer_f32"})) = 2
    /\ \A i \in PointersOf(0), j \in PointersOf(1) : i < j

\* C25: into_id returns the handle id() reported and issues no delete; from
\* then on, whatever is generated, dropped or escaped, no wrapper of this
\* layer deletes that texture: it stays among the driver's live objects, and
\* the escaped wrapper's count of deletes stays at none.
C25_EscapedNeverDeleted ==
    [][\A w \in WrapperIds :
          /\ (wrappers[w].st = "alive" /\ wrappers'[w].st = "escaped") =>
                /\ wrappers'[w].id = Texture_id(w)
                /\ <<"Texture", Texture_id(w)>> \in glLive'
                /\ delCnt'[w] = 0
          /\ wrappers[w].st = "escaped" =>
                /\ wrappers'[w] = wrappers[w]
                /\ <<"Texture", wrappers[w].id>> \in glLive'
                /\ delCnt'[w] = 0]_vars

\* A texture has escaped, and after or before it another texture of this
\* layer was generated and dropped, with its delete.
C25_Witness ==
    \E w, x \in WrapperIds :
        /\ wrappers[w].st = "escaped" /\ wrappers[w].kind = "Texture"
        /\ <<"Texture", wrappers[w].id>> \in glLive
        /\ wrappers[x].st = "dropped" /\ wrappers[x].kind = "Texture" /\ delCnt[x] = 1

\* The registry is empty when do_frame starts, and a token of an earlier
\* frame that fires does not run the closure it was issued for.
RegistryIsPerFrame ==
    /\ cbEv.op = "do_frame" => callbacks = <<>>
    /\ (cbEv.op = "run_callback" /\ cbEv.frame # frameNo) => cbEv.ran # cbEv.cl

\* C26 as stated: every registered closure, of add_callback and of
\* set_next_window_size_constraints_callback alike, runs at most once,
\* however often its token fires; the registry is empty at the start of the
\* next do_frame and an earlier frame's token no longer names its closure.
C26_EveryClosureAtMostOnce ==
    /\ \A tok \in tokens : invoked[tok.cl] <= 1
    /\ RegistryIsPerFrame

\* C26: a closure registered by add_callback runs at most once, and has run
\* once its token has fired in its frame, however often that fires; a
\* closure registered by set_next_window_size_constraints_callback runs at
\* every firing of its token in its frame; the registry is empty at the start
\* of the next do_frame and an earlier frame's token no longer names its
\* closure.
C26_OnlyDrawCallbacksAtMostOnce ==
    /\ \A tok \in tokens :
          IF tok.kind = "add_callback"
          THEN /\ invoked[tok.cl] <= 1
               /\ fired[tok.cl] >= 1 => invoked[tok.cl] = 1
          ELSE invoked[tok.cl] >= fired[tok.cl]
    /\ RegistryIsPerFrame

\* A frame in which the token of an add_callback closure has fired twice and
\* the closure has run once, while a size callback has run twice.
C26_Witness ==
    /\ \E tok \in tokens :
          tok.kind = "add_callback" /\ fired[tok.cl] = 2 /\ invoked[tok.cl] = 1
    /\ \E tok \in tokens :
          tok.kind = "size_callback" /\ fired[tok.cl] = 2 /\ invoked[tok.cl] = 2

\* The positions in the last from_source where a stage failed: its shader
\* object was not created, or it did not compile.
StageFailedAt ==
    {k \in 1..Len(fsCalls) :
        \/ fsCalls[k][1] = "create_shader" /\ fsCalls[k][2] = 0
        \/ fsCalls[k][1] = "get_shader_info_log"}

\* The positions of the calls that compile a stage, and of those that build
\* the program.
StageCallsAt ==
    FsCallsAt("create_shader") \cup FsCallsAt("shader_source") \cup FsCallsAt("compile_shader")
        \cup FsCallsAt("get_shader_compile_status")
BuildCallsAt == FsCallsAt("attach_shader") \cup FsCallsAt("link_program")

\* C27: the first driver call of from_source is the get_error that clears
\* the error state; the stages are compiled in the order vertex, fragment,
\* geometry, each at most once; after a stage that failed no stage is
\* compiled and no program is created; the program object is created after
\* the last call that compiles a stage, and every attach and the link come
\* after the creation of a program object that exists.
C27_CompileThenCreateThenLink ==
    fsRet # "none" =>
        /\ fsCalls[1] = <<"get_error", 0>>
        /\ \A i, j \in FsCallsAt("compile_shader") :
              i < j => fsCalls[i][2] < fsCalls[j][2]
        /\ \A i \in FsCallsAt("compile_shader") : fsCalls[i][2] \in {VshId, FshId, GshId}
        /\ FsCallsAt("compile_shader") # {} =>
              \E i \in FsCallsAt("compile_shader") : fsCalls[i][2] = VshId
        /\ (\E i \in FsCallsAt("compile_shader") : fsCalls[i][2] = GshId) =>
              \E i \in FsCallsAt("compile_shader") : fsCalls[i][2] = FshId
        /\ \A k \in StageFailedAt, j \in StageCallsAt \cup FsCallsAt("create_program") : j <= k
        /\ \A s \in StageCallsAt, c \in FsCallsAt("create_program") : s < c
        /\ Cardinality(FsCallsAt("create_program")) <= 1
        /\ \A b \in BuildCallsAt :
              \E c \in FsCallsAt("create_program") : c < b /\ fsCalls[c][2] # 0

\* A from_source whose vertex stage compiled and whose fragment stage did
\* not: no geometry stage, no program.
C27_Witness ==
    /\ fsRet = "err"
    /\ \E i \in FsCallsAt("compile_shader") : fsCalls[i][2] = FshId
    /\ \E k \in StageFailedAt : fsCalls[k] = <<"get_shader_info_log", FshId>>
    /\ FsCallsAt("create_program") = {}

\* The entries of the catalog cat that have exactly the name name.
EntriesNamed(cat, name) == {i \in DOMAIN cat : cat[i].name = name}

\* The last lookup returned the first entry of its catalog that has exactly
\* the name asked for, and nothing when the catalog has none.
LookupFindsFirst ==
    lookup.op # "none" =>
        LET cat == IF lookup.op = "uniform_by_name" THEN fsProg.uniforms ELSE fsProg.attribs
            named == EntriesNamed(cat, lookup.name)
        IN  IF named = {} THEN lookup.ret = <<>>
            ELSE /\ Len(lookup.ret) = 1
                 /\ \E i \in named : lookup.ret[1] = cat[i] /\ \A j \in named : i <= j

\* C28: once from_source has returned a Program, no draw, uniform_by_name or
\* attrib_by_name changes its catalogs, and each lookup returns the first
\* entry with exactly the name asked for, or nothing when there is none.
C28_CatalogsAreFixed ==
    [][/\ fsRet = "ok" => fsProg' = fsProg
       /\ LookupFindsFirst']_vars

\* After a draw that set a uniform, a lookup returned the second attribute
\* of a catalog that has two entries.
C28_Witness ==
    /\ drRet = "ok" /\ CallsAt({"uniform"}) # {}
    /\ lookup.op = "attrib_by_name"
    /\ Len(fsProg.attribs) = 2
    /\ lookup.ret = << fsProg.attribs[2] >>

\* C29: the recorded size buf_len starts at 0; in every step it stays or
\* grows, and it changes only in a bind_buffer that reallocates; it is always
\* the largest record count uploaded so far; a clean non-empty array has at
\* most buf_len records; and a sub-range upload ends within the store the
\* driver had allocated.
C29_RecordedSizeGrowsOnly ==
    /\ buf_len = 0
    /\ [][/\ buf_len' >= buf_len
          /\ buf_len' # buf_len => ev'.up = "full"
          /\ buf_len' = maxUp'
          /\ (~dirty' /\ data' # <<>>) => Len(data') <= buf_len'
          /\ ev'.up = "sub" => ev'.off + ev'.bytes <= ev'.alloc0]_vars

\* After an upload of MaxLen records, a sub-range upload of fewer left the
\* array clean with the recorded size still MaxLen.
C29_Witness ==
    /\ ev.up = "sub" /\ ev.bytes < ev.alloc0
    /\ ~dirty /\ data # <<>> /\ Len(data) < buf_len
    /\ buf_len = MaxLen /\ maxUp = MaxLen

\* The buffer bound to ARRAY_BUFFER when call i of the last draw is issued.
ArrayBufferAt(i) ==
    LET binds == {j \in CallsAt({"bind_buffer"}) : j < i}
    IN  IF binds = {} THEN drIn.array0.arrayBuffer
        ELSE drCalls[CHOOSE j \in binds : \A k \in binds : k <= j][2]

\* The members of the last draw's source list that read the array.
ArrayMembers ==
    LET all == IF drIn.src.kind = "pair" THEN {drIn.src.a0, drIn.src.a1} ELSE {drIn.src}
    IN  {m \in all : m.kind \in {"dva", "sub"}}

\* C30: in a draw that reaches the draw call, every attribute pointer is set
\* while the array's own buffer is bound to ARRAY_BUFFER, and for the array
\* and for every view of it in the source list the buffer's store holds the
\* records from the member's first one up to the reported vertex count.
C30_PointersIntoOwnBuffer ==
    (drRet = "ok" /\ drIn.len # 0) =>
        /\ \A i \in CallsAt({"vertex_attrib_pointer_f32"}) : ArrayBufferAt(i) = BufId
        /\ \A m \in ArrayMembers : (m.start + drIn.len) * RecSize <= Len(gpu)

\* The lengths the members of the last draw's pair reported, and the bind of
\* each member, the second from the array as the first left it.
MemberLen(m) ==
    CASE m.kind = "nil" -> m.n
      [] m.kind = "dva" -> Len(drIn.array0.data)
      [] m.kind = "sub" -> IF m.end > m.start THEN m.end - m.start ELSE 0
FirstBind == Simple_bind(drIn.src.a0, drIn.prog, drIn.array0)
SecondBind == Simple_bind(drIn.src.a1, drIn.prog, FirstBind.a)

\* C31: a draw over a pair reports the smaller of its members' lengths as
\* the vertex count; it issues no call exactly when a member reports zero;
\* otherwise the calls that bind the first member come first, those of the
\* second member next, then the draw call with that count, and the guards of
\* both members disable their slots only after the draw call.
C31_PairIsMinAndBindsBoth ==
    (drRet # "none" /\ drIn.src.kind = "pair") =>
        LET n0 == MemberLen(drIn.src.a0)
            n1 == MemberLen(drIn.src.a1)
            least == IF n0 <= n1 THEN n0 ELSE n1
        IN  /\ drIn.len = least
            /\ drCalls = <<>> <=> (n0 = 0 \/ n1 = 0)
            /\ least # 0 =>
                  /\ Named(drCalls, BindCallNames) = FirstBind.calls \o SecondBind.calls
                  /\ \E i \in CallsAt({"draw_arrays"}) : drCalls[i][4] = least
                  /\ Before(BindCallNames, {"draw_arrays"})
                  /\ SlotsOf("disable_vertex_attrib_array") = FirstBind.vas \o SecondBind.vas
                  /\ Before({"draw_arrays"}, {"disable_vertex_attrib_array"})

\* A draw over (array, view from record 1) of an array of two records: one
\* vertex, the array's pointers ahead of the view's, four guards dropped
\* after the draw call.
C31_Witness ==
    /\ drRet = "ok" /\ drIn.src = PairSrc(DvaSrc, SubSrc(1, 2))
    /\ Len(drIn.array0.data) = 2 /\ drIn.len = 1
    /\ Len(FirstBind.vas) = 2 /\ Len(SecondBind.vas) = 2
    /\ FirstBind.calls # SecondBind.calls
    /\ Len(SlotsOf("disable_vertex_attrib_array")) = 4

\* The step is a call of update_atlas.
UpdateAtlasStep == ctxEv'.op = "update_atlas" /\ ctxEv'.tick # ctxEv.tick

\* The atlas holds exactly the font list, in order, at the current scale.
AtlasRebuilt ==
    /\ Len(atlas') = Len(fonts)
    /\ \A k \in 1..Len(fonts) :
          /\ atlas'[k].ttf = fonts[k].ttf
          /\ atlas'[k].MergeMode = fonts[k].merge
          /\ atlas'[k].size_pixels = fonts[k].size * io.DisplayFramebufferScale

\* C32: update_atlas rebuilds the atlas from the font list and returns true
\* exactly when the context was created, or set_size, add_font or merge_font
\* was called, since the previous update_atlas; otherwise it returns false
\* and the atlas stays as it was; an update_atlas right after an update_atlas
\* returns false.
C32_UpdateAtlasIffPending ==
    [][UpdateAtlasStep =>
          /\ IF sinceUpdate # {}
             THEN ctxEv'.ret = "true" /\ AtlasRebuilt
             ELSE ctxEv'.ret = "false" /\ atlas' = atlas
          /\ ctxEv.op = "update_atlas" => ctxEv'.ret = "false" /\ atlas' = atlas]_vars

\* An update_atlas has returned true with two fonts in the atlas at scale 2,
\* and the one after it has returned false.
C32_Witness ==
    /\ ctxEv.op = "update_atlas" /\ ctxEv.ret = "false"
    /\ sinceUpdate = {}
    /\ Len(atlas) = 2 /\ atlas[2].MergeMode /\ atlas[1].size_pixels = 2

\* The add_font entries among the first k fonts of the list.
AddedBefore(k) == Cardinality({j \in 1..k : ~fonts[j].merge})

\* C33: the FontId add_font returns is the number of add_font calls before
\* it; a font added by merge_font has the id of the latest add_font before
\* it; the ids of the font list never decrease; merge_font on an empty font
\* list panics and the list stays empty.
C33_FontIds ==
    /\ ctxEv.op = "add_font" =>
          /\ ctxEv.font = addCalls - 1
          /\ fonts[Len(fonts)].id = ctxEv.font /\ ~fonts[Len(fonts)].merge
    /\ \A k \in 1..Len(fonts) :
          /\ fonts[k].merge => AddedBefore(k) >= 1
          /\ fonts[k].id = AddedBefore(k) - 1
    /\ \A k \in 1..(Len(fonts) - 1) : fonts[k].id <= fonts[k + 1].id
    /\ ctxEv.op = "merge_font" =>
          IF ctxEv.ret = "panic"
          THEN fonts = <<>>
          ELSE Len(fonts) >= 2 /\ fonts[Len(fonts)].merge

\* A second add_font has returned 1 after a merge_font that added a font
\* with id 0.
C33_Witness ==
    /\ ctxEv.op = "add_font" /\ ctxEv.font = 1
    /\ Len(fonts) = 3 /\ fonts[2].merge /\ fonts[2].id = 0 /\ fonts[3].id = 1

====
